---- MODULE Spec2Model ----
(***************************************************************************)
(* Planning / scheduling core of the field-engineer calendar backend.     *)
(*                                                                         *)
(* The persistent store (works, chunks, links, sessions), the slot search  *)
(* engine, the strategies, the PlanningService operations and the chunk    *)
(* routes of /api/works are modelled.  Every action is one handler run     *)
(* inside one get_db transaction: the handler computes a new store and     *)
(* get_db commits it, or keeps the old store when the handler raised.      *)
(*                                                                         *)
(* Dates are day numbers (Today = 1), hours are integers, a Python None is *)
(* Null for identifiers and NoInt for integer columns.  ORM relationship   *)
(* loading is taken to succeed; rows come back from the store in the       *)
(* order given by the row-order inputs of the actions.                     *)
(***************************************************************************)
EXTENDS Integers, Sequences, FiniteSets, TLC

Null == "null"
NoInt == -1

\* ------------------------------------------------------------------------
\* Bounds of the model
\* ------------------------------------------------------------------------
NumDays == 2
MaxSessions == 1
MaxVersion == 2
MaxClock == 60
TickMinutes == 15
MaxEvents == 2

\* ------------------------------------------------------------------------
\* Program constants
\* ------------------------------------------------------------------------
Today == 1
DefaultWindowDays == 30
DefaultTravelMinutes == 60
NoDeadlineOrdinal == 999999
SessionTTLMinutes == 30

\* ------------------------------------------------------------------------
\* Generic helpers
\* ------------------------------------------------------------------------
Max(a, b) == IF a >= b THEN a ELSE b

CeilDiv60(minutes) == (minutes + 59) \div 60

Map(F(_), s) == [i \in 1..Len(s) |-> F(s[i])]

RECURSIVE LexLess(_, _)
LexLess(a, b) ==
    IF Len(a) = 0 \/ Len(b) = 0 THEN Len(a) < Len(b)
    ELSE IF Head(a) # Head(b) THEN Head(a) < Head(b)
    ELSE LexLess(Tail(a), Tail(b))

\* Insert x behind every element whose key is <= x.key (stable).
RECURSIVE InsertStable(_, _)
InsertStable(x, s) ==
    IF s = << >> THEN << x >>
    ELSE IF LexLess(x.key, Head(s).key) THEN << x >> \o s
    ELSE << Head(s) >> \o InsertStable(x, Tail(s))

RECURSIVE SortedByKey(_)
SortedByKey(s) ==
    IF s = << >> THEN << >>
    ELSE InsertStable(s[Len(s)], SortedByKey(SubSeq(s, 1, Len(s) - 1)))

Vals(s) == [i \in 1..Len(s) |-> s[i].val]

\* Python's sorted(s, key=K): stable, ascending, keys are integer tuples.
SortBy(K(_), s) == Vals(SortedByKey(Map(LAMBDA x : [key |-> K(x), val |-> x], s)))

RECURSIVE SumSeq(_)
SumSeq(s) == IF s = << >> THEN 0 ELSE Head(s) + SumSeq(Tail(s))

RECURSIVE ConcatAll(_)
ConcatAll(ss) == IF ss = << >> THEN << >> ELSE Head(ss) \o ConcatAll(Tail(ss))

\* ------------------------------------------------------------------------
\* Reference data: regions, data centers, distances, engineers, time slots
\* ------------------------------------------------------------------------
Engineers == { "e1", "e2", "e3", "e4", "e5" }

EngineerRegion == [e \in Engineers |->
    CASE e = "e1" -> "r1"
      [] e = "e2" -> "r1"
      [] e = "e3" -> "r2"
      [] e = "e4" -> "r3"
      [] e = "e5" -> "r3"]

DataCenters == { "dcA", "dcB", "dcC", "dcD" }

\* PlanningContext._dc_regions
dc_regions == [d \in DataCenters |->
    CASE d = "dcA" -> "r1"
      [] d = "dcB" -> "r1"
      [] d = "dcC" -> "r2"
      [] d = "dcD" -> "r3"]

\* PlanningContext._distance_cache: (from_dc, to_dc) -> minutes
distance_cache == ( << "dcA", "dcB" >> :> 90 )

\* Rows of TimeSlot for (engineer, day), ordered by start_hour.
TimeSlots(e, d) ==
    IF d < 1 \/ d > NumDays THEN << >>
    ELSE CASE e = "e1" /\ d = 1 -> << [start_hour |-> 9, end_hour |-> 12],
                                      [start_hour |-> 13, end_hour |-> 17] >>
           [] e = "e1" /\ d > 1 -> << [start_hour |-> 9, end_hour |-> 17] >>
           [] e = "e2" /\ d = 1 -> << [start_hour |-> 9, end_hour |-> 13] >>
           [] e = "e2" /\ d > 1 -> << >>
           [] e = "e3" -> << [start_hour |-> 9, end_hour |-> 18] >>
           [] e \in { "e4", "e5" } /\ d = 1 -> << [start_hour |-> 9, end_hour |-> 17] >>
           [] e \in { "e4", "e5" } /\ d > 1 -> << >>

\* ------------------------------------------------------------------------
\* Works, chunks, tasks, links
\* ------------------------------------------------------------------------
WorkIds == { "w1", "w2" }
ChunkIds == { "c1", "c2", "c3", "c4" }

\* The works and chunks of the stores in which two engineers of one region
\* share four chunks of two hours.
PackedWorkIds == { "w3", "w4", "w5", "w6" }
PackedChunkIds == { "c5", "c6", "c7", "c8" }

\* A chunk without WorkTask rows.
TasklessChunkIds == { "c0" }

\* Order in which the store returns chunk rows when no ORDER BY is given.
ChunkRows == << "c1", "c2", "c3", "c4", "c5", "c6", "c7", "c8", "c0" >>

\* WorkTask rows of a chunk: (estimated_hours, quantity)
ChunkTasks == [c \in ChunkIds \cup PackedChunkIds \cup TasklessChunkIds |->
    CASE c = "c1" -> << [estimated_hours |-> 2, quantity |-> 2] >>
      [] c = "c2" -> << [estimated_hours |-> 1, quantity |-> 1],
                        [estimated_hours |-> 2, quantity |-> 1] >>
      [] c = "c3" -> << [estimated_hours |-> 2, quantity |-> 1] >>
      [] c = "c4" -> << [estimated_hours |-> 2, quantity |-> 1] >>
      [] c \in PackedChunkIds -> << [estimated_hours |-> 1, quantity |-> 2] >>
      [] c \in TasklessChunkIds -> << >>]

\* WorkChunk.duration_hours
duration_hours(cid) ==
    SumSeq(Map(LAMBDA t : t.estimated_hours * t.quantity, ChunkTasks[cid]))

InitWorks(target_time) == [w \in WorkIds |->
    IF w = "w1"
    THEN [work_type |-> "general", priority |-> "medium", status |-> "draft",
          due_date |-> NumDays, target_date |-> NoInt, target_time |-> NoInt,
          data_center_id |-> "dcA", version |-> 1]
    ELSE [work_type |-> "support", priority |-> "high", status |-> "draft",
          due_date |-> NoInt, target_date |-> 1, target_time |-> target_time,
          data_center_id |-> "dcB", version |-> 1]]

NewChunk(work_id, order, dc) ==
    [work_id |-> work_id, order |-> order, data_center_id |-> dc,
     status |-> "created", assigned_engineer_id |-> Null,
     assigned_date |-> NoInt, assigned_start_time |-> NoInt, version |-> 1]

InitChunks == [c \in ChunkIds \cup TasklessChunkIds |->
    CASE c = "c1" -> NewChunk("w1", 0, Null)
      [] c = "c2" -> NewChunk("w1", 1, "dcB")
      [] c = "c3" -> NewChunk("w2", 0, "dcB")
      [] c = "c4" -> NewChunk("w1", 2, "dcC")
      [] c = "c0" -> NewChunk("w1", 3, Null)]

\* General works of one priority and due date in the third region.
PackedWorks == [w \in PackedWorkIds |->
    [work_type |-> "general", priority |-> "medium", status |-> "draft",
     due_date |-> NumDays, target_date |-> NoInt, target_time |-> NoInt,
     data_center_id |-> "dcD", version |-> 1]]

\* Four created chunks, all of one work or each of a work of its own.
PackedChunks(one_work) == [c \in PackedChunkIds |->
    CASE c = "c5" -> NewChunk("w3", 0, Null)
      [] c = "c6" -> NewChunk(IF one_work THEN "w3" ELSE "w4", IF one_work THEN 1 ELSE 0, Null)
      [] c = "c7" -> NewChunk(IF one_work THEN "w3" ELSE "w5", IF one_work THEN 2 ELSE 0, Null)
      [] c = "c8" -> NewChunk(IF one_work THEN "w3" ELSE "w6", IF one_work THEN 3 ELSE 0, Null)]

Link(a, b, t) == [chunk_id |-> a, linked_chunk_id |-> b, link_type |-> t]

\* A store the model starts from: its chunks, its link table and the
\* support work's target_time.
Config(chunk_ids, lnk, target_time) ==
    [chunk_ids |-> chunk_ids, links |-> lnk, target_time |-> target_time]

\* The stores the model starts from: a general and a support chunk, two
\* chunks of the general work in different regions, and two chunks of the
\* general work in one region under a dependency whose target has no link
\* of its own, a dependency whose target has one, and a sync link.
Configs == { Config({ "c1", "c3" }, {}, 14),
             Config({ "c1", "c4" }, {}, NoInt),
             Config({ "c1", "c2" }, { Link("c2", "c1", "dependency") }, NoInt),
             Config({ "c1", "c2" }, { Link("c1", "c2", "dependency"),
                                      Link("c2", "c1", "sync") }, NoInt),
             Config({ "c1", "c2" }, { Link("c1", "c2", "sync") }, NoInt) }

\* now: the clock read by datetime.utcnow(), in minutes.
\* txs: the PATCH requests whose transactions are open side by side.
VARIABLES works, chunks, links, sessions, last, now, txs
\* subscribers: SyncService._subscribers, the (client_id, queue) pairs in the
\*   order of insertion.
\* lock: SyncService._lock.
\* streams: the event_generator of every SSE stream.
\* broadcasts: the request handlers that call sync_service.broadcast.
\* journal: the events issued so far, and per client the events put into
\*   its queue and the events of the broadcasts that found it registered.
VARIABLES subscribers, lock, streams, broadcasts, journal
\* runs: the create_session calls in progress, each with the PlanningService
\*   and PlanningContext its request constructed.
VARIABLES runs

planvars == << works, chunks, links, sessions, last, now, txs, runs >>
syncvars == << subscribers, lock, streams, broadcasts, journal >>
vars == << works, chunks, links, sessions, last, now, txs,
           subscribers, lock, streams, broadcasts, journal, runs >>

\* ------------------------------------------------------------------------
\* Distance oracle
\* ------------------------------------------------------------------------
\* get_travel_time looking at the reverse entry first.
travel_time_reverse_first(cache, from_dc, to_dc) ==
    IF from_dc = Null \/ to_dc = Null \/ from_dc = to_dc THEN 0
    ELSE IF << to_dc, from_dc >> \in DOMAIN cache
         THEN CeilDiv60(cache[<< to_dc, from_dc >>])
         ELSE IF << from_dc, to_dc >> \in DOMAIN cache
              THEN CeilDiv60(cache[<< from_dc, to_dc >>])
              ELSE CeilDiv60(DefaultTravelMinutes)

\* PlanningContext.get_travel_time on the distance cache given.
travel_time(cache, from_dc, to_dc) ==
    IF from_dc = Null \/ to_dc = Null \/ from_dc = to_dc THEN 0
    ELSE IF << from_dc, to_dc >> \in DOMAIN cache
         THEN CeilDiv60(cache[<< from_dc, to_dc >>])
         ELSE IF << to_dc, from_dc >> \in DOMAIN cache
              THEN CeilDiv60(cache[<< to_dc, from_dc >>])
              ELSE CeilDiv60(DefaultTravelMinutes)

get_travel_time(from_dc, to_dc) == travel_time(distance_cache, from_dc, to_dc)

\* ------------------------------------------------------------------------
\* Calendar view (PlanningContext).  ch is the chunk table as the current
\* transaction sees it, wk the work table, virt the virtual assignments.
\* ------------------------------------------------------------------------
OccupiedStatuses == { "planned", "assigned", "in_progress" }

effective_dc(ch, wk, cid) ==
    IF ch[cid].data_center_id # Null THEN ch[cid].data_center_id
    ELSE IF ch[cid].work_id \in DOMAIN wk THEN wk[ch[cid].work_id].data_center_id
    ELSE Null

RowsOf(ch) == SelectSeq(ChunkRows, LAMBDA c : c \in DOMAIN ch)

get_occupied_intervals(ch, wk, virt, engineer_id, day) ==
    SortBy(LAMBDA occ : << occ.start >>,
           Map(LAMBDA c : [start |-> ch[c].assigned_start_time,
                           end |-> ch[c].assigned_start_time + duration_hours(c),
                           dc_id |-> effective_dc(ch, wk, c)],
               SelectSeq(RowsOf(ch), LAMBDA c :
                   /\ ch[c].assigned_engineer_id = engineer_id
                   /\ ch[c].assigned_date = day
                   /\ ch[c].status \in OccupiedStatuses
                   /\ ch[c].assigned_start_time # NoInt))
           \o
           Map(LAMBDA a : [start |-> a.start_time,
                           end |-> a.start_time + a.duration_hours,
                           dc_id |-> a.dc_id],
               SelectSeq(virt, LAMBDA a :
                   a.engineer_id = engineer_id /\ a.date = day)))

\* Hours of the engineer's TimeSlot rows of one day.
SlotHours(engineer_id, d) ==
    SumSeq(Map(LAMBDA s : s.end_hour - s.start_hour, TimeSlots(engineer_id, d)))

calculate_load(ch, virt, engineer_id, start_date, end_date) ==
    [used |->
        SumSeq(Map(LAMBDA c : duration_hours(c),
                   SelectSeq(RowsOf(ch), LAMBDA c :
                       /\ ch[c].assigned_engineer_id = engineer_id
                       /\ ch[c].assigned_date # NoInt
                       /\ ch[c].assigned_date >= start_date
                       /\ ch[c].assigned_date <= end_date
                       /\ ch[c].status \in OccupiedStatuses)))
        + SumSeq(Map(LAMBDA a : a.duration_hours,
                     SelectSeq(virt, LAMBDA a :
                         /\ a.engineer_id = engineer_id
                         /\ start_date <= a.date /\ a.date <= end_date))),
     available |->
        SumSeq([k \in 1..(end_date - start_date + 1) |->
                   SlotHours(engineer_id, start_date + k - 1)])]

\* rows: the Engineer rows in the order the store returns them.
get_candidate_engineers(rows, dc_id, preferred_engineer_id) ==
    LET Preferred(engineers) ==
            IF preferred_engineer_id # Null
            THEN SortBy(LAMBDA e : << IF e = preferred_engineer_id THEN 0 ELSE 1 >>,
                        engineers)
            ELSE engineers
    IN IF dc_id # Null /\ dc_id \in DOMAIN dc_regions
       THEN Preferred(SelectSeq(rows, LAMBDA e : EngineerRegion[e] = dc_regions[dc_id]))
       ELSE Preferred(rows)

\* ------------------------------------------------------------------------
\* Slot search engine (PlanningEngine)
\* ------------------------------------------------------------------------
\* potential_start of _find_start_time_in_slot; prev is the index of
\* prev_occ in occupied, 0 for None.
PotentialStart(slot_start, occupied, target_dc_id, current_time, prev) ==
    IF prev # 0
    THEN Max(Max(current_time, slot_start),
             occupied[prev].end + get_travel_time(occupied[prev].dc_id, target_dc_id))
    ELSE Max(current_time, slot_start)

\* The check after the loop without the comparison with slot_end.
SweepTailUnbounded(slot_end, duration, potential_start) == potential_start

\* The check after the loop of _find_start_time_in_slot.
SweepTail(slot_end, duration, potential_start) ==
    IF potential_start + duration <= slot_end THEN potential_start ELSE NoInt

\* The loop of _find_start_time_in_slot from the i-th occupied interval on.
RECURSIVE SweepLoop(_, _, _, _, _, _, _, _)
SweepLoop(slot_start, slot_end, duration, occupied, target_dc_id, i, current_time, prev) ==
    IF i > Len(occupied)
    THEN SweepTail(slot_end, duration,
                   PotentialStart(slot_start, occupied, target_dc_id, current_time, prev))
    ELSE IF occupied[i].end <= slot_start
    THEN SweepLoop(slot_start, slot_end, duration, occupied, target_dc_id,
                   i + 1, current_time, i)
    ELSE IF occupied[i].start >= slot_end
    THEN SweepTail(slot_end, duration,
                   PotentialStart(slot_start, occupied, target_dc_id, current_time, prev))
    ELSE LET Gap(potential_start, travel_to_next) ==
                 IF /\ potential_start + duration + travel_to_next <= occupied[i].start
                    /\ potential_start >= slot_start
                    /\ potential_start + duration <= slot_end
                 THEN potential_start
                 ELSE SweepLoop(slot_start, slot_end, duration, occupied, target_dc_id,
                                i + 1, Max(current_time, occupied[i].end), i)
         IN Gap(PotentialStart(slot_start, occupied, target_dc_id, current_time, prev),
                get_travel_time(target_dc_id, occupied[i].dc_id))

\* Returns the start hour, or NoInt for None.
find_start_time_in_slot(slot_start, slot_end, duration, occupied, target_dc_id) ==
    IF occupied = << >>
    THEN IF slot_start + duration <= slot_end THEN slot_start ELSE NoInt
    ELSE SweepLoop(slot_start, slot_end, duration, occupied, target_dc_id,
                   1, slot_start, 0)

is_slot_free(start, duration, occupied, target_dc_id) ==
    find_start_time_in_slot(start, start + duration, duration, occupied, target_dc_id) # NoInt

create_suggestion(engineer_id, day, start, duration, dc_id, priority) ==
    [engineer_id |-> engineer_id, date |-> day, start_time |-> start,
     end_time |-> start + duration, duration_hours |-> duration,
     dc_id |-> dc_id, priority |-> priority]

\* The loop over the work windows of one day, from window k on.
RECURSIVE SlotsOfDay(_, _, _, _, _, _, _, _)
SlotsOfDay(engineer_id, work, duration, target_dc_id, day, work_slots, occupied, k) ==
    IF k > Len(work_slots) THEN << >>
    ELSE IF work.work_type = "support" /\ work.target_time # NoInt
    THEN (IF /\ work.target_time >= work_slots[k].start_hour
             /\ work.target_time + duration <= work_slots[k].end_hour
             /\ is_slot_free(work.target_time, duration, occupied, target_dc_id)
          THEN << create_suggestion(engineer_id, day, work.target_time,
                                    duration, target_dc_id, work.priority) >>
          ELSE << >>)
         \o SlotsOfDay(engineer_id, work, duration, target_dc_id, day,
                       work_slots, occupied, k + 1)
    ELSE LET Found(found_start) ==
                 IF found_start # NoInt
                 THEN << create_suggestion(engineer_id, day, found_start,
                                           duration, target_dc_id, work.priority) >>
                 ELSE SlotsOfDay(engineer_id, work, duration, target_dc_id, day,
                                 work_slots, occupied, k + 1)
         IN Found(find_start_time_in_slot(work_slots[k].start_hour, work_slots[k].end_hour,
                                          duration, occupied, target_dc_id))

\* find_available_slots, from current_date on.
RECURSIVE find_available_slots(_, _, _, _, _, _, _, _)
find_available_slots(ch, wk, virt, engineer_id, cid, work, current_date, search_window_end) ==
    IF current_date > search_window_end THEN << >>
    ELSE (IF TimeSlots(engineer_id, current_date) = << >> THEN << >>
          ELSE SlotsOfDay(engineer_id, work, duration_hours(cid),
                          effective_dc(ch, wk, cid), current_date,
                          TimeSlots(engineer_id, current_date),
                          get_occupied_intervals(ch, wk, virt, engineer_id, current_date),
                          1))
         \o find_available_slots(ch, wk, virt, engineer_id, cid, work,
                                 current_date + 1, search_window_end)

\* ------------------------------------------------------------------------
\* Strategies
\* ------------------------------------------------------------------------
Strategies == { "balanced", "dense", "sla" }

priority_map(priority) ==
    CASE priority = "critical" -> 0
      [] priority = "high" -> 1
      [] priority = "medium" -> 2
      [] priority = "low" -> 3
      [] OTHER -> 2

deadline_ord(work) ==
    IF work.due_date # NoInt THEN work.due_date
    ELSE IF work.target_date # NoInt THEN work.target_date
    ELSE NoDeadlineOrdinal

BalancedKey(chunk, work, cid) ==
    << IF work.work_type = "support" THEN 0 ELSE 1,
       priority_map(work.priority), deadline_ord(work), chunk.order >>

DenseKey(chunk, work, cid) ==
    << IF work.work_type = "support" THEN 0 ELSE 1,
       priority_map(work.priority), 0 - duration_hours(cid), chunk.order >>

SLAKey(chunk, work, cid) ==
    << priority_map(work.priority), deadline_ord(work), chunk.order >>

\* strategy.sort_chunks on the chunk ids in the order the store returned them
sort_chunks(strategy, ch, wk, cids) ==
    SortBy(LAMBDA c : CASE strategy = "dense" -> DenseKey(ch[c], wk[ch[c].work_id], c)
                        [] strategy = "sla" -> SLAKey(ch[c], wk[ch[c].work_id], c)
                        [] OTHER -> BalancedKey(ch[c], wk[ch[c].work_id], c),
           cids)

\* Ratios are kept as << numerator, denominator >>; << 1, 0 >> is +infinity.
RatLess(a, b) == a[1] * b[2] < b[1] * a[2]
RatEq(a, b) == a[1] * b[2] = b[1] * a[2]

\* A selector that returns the last candidate of the list.
BalancedLoopLast(ch, virt, candidates, i, best, min_load_ratio) == Len(candidates)

\* BalancedStrategy.select_best_slot from candidate i on; best is an index
\* into candidates (0 for None).
RECURSIVE BalancedLoop(_, _, _, _, _, _)
BalancedLoop(ch, virt, candidates, i, best, min_load_ratio) ==
    IF i > Len(candidates) THEN best
    ELSE LET Compare(cand, ratio) ==
                 IF RatLess(ratio, min_load_ratio)
                 THEN BalancedLoop(ch, virt, candidates, i + 1, i, ratio)
                 ELSE IF RatEq(ratio, min_load_ratio)
                         /\ best # 0 /\ cand.date < candidates[best].date
                 THEN BalancedLoop(ch, virt, candidates, i + 1, i, min_load_ratio)
                 ELSE BalancedLoop(ch, virt, candidates, i + 1, best, min_load_ratio)
             Ratio(cand, load) ==
                 Compare(cand, IF load.available > 0
                               THEN << load.used + cand.duration_hours, load.available >>
                               ELSE << 1, 1 >>)
         IN Ratio(candidates[i],
                  calculate_load(ch, virt, candidates[i].engineer_id,
                                 candidates[i].date, candidates[i].date))

\* DenseStrategy.select_best_slot from candidate i on.
RECURSIVE DenseLoop(_, _, _, _, _, _)
DenseLoop(ch, virt, candidates, i, best, max_load_ratio) ==
    IF i > Len(candidates) THEN best
    ELSE LET Compare(cand, ratio) ==
                 IF RatLess(max_load_ratio, ratio)
                 THEN DenseLoop(ch, virt, candidates, i + 1, i, ratio)
                 ELSE IF RatEq(ratio, max_load_ratio)
                         /\ best # 0 /\ cand.date < candidates[best].date
                 THEN DenseLoop(ch, virt, candidates, i + 1, i, max_load_ratio)
                 ELSE DenseLoop(ch, virt, candidates, i + 1, best, max_load_ratio)
             Ratio(cand, load) ==
                 IF load.used + cand.duration_hours <= load.available
                 THEN Compare(cand, IF load.available > 0
                                    THEN << load.used, load.available >>
                                    ELSE << 0, 1 >>)
                 ELSE DenseLoop(ch, virt, candidates, i + 1, best, max_load_ratio)
         IN Ratio(candidates[i],
                  calculate_load(ch, virt, candidates[i].engineer_id,
                                 candidates[i].date, candidates[i].date))

NoSlot == [engineer_id |-> Null]

\* strategy.select_best_slot; NoSlot stands for None.
select_best_slot(strategy, ch, virt, candidates) ==
    LET Pick(best) == IF best = 0 THEN candidates[1] ELSE candidates[best]
    IN IF candidates = << >> THEN NoSlot
       ELSE CASE strategy = "dense" ->
                   Pick(DenseLoop(ch, virt, candidates, 1, 0, << -1, 1 >>))
              [] strategy = "sla" ->
                   SortBy(LAMBDA s : << s.date, s.start_time >>, candidates)[1]
              [] OTHER ->
                   candidates[BalancedLoop(ch, virt, candidates, 1, 0, << 1, 0 >>)]

\* ------------------------------------------------------------------------
\* PlanningService helpers.  lnk is the ChunkLink table.
\* ------------------------------------------------------------------------
\* Chunks the given chunk depends on: the targets of its outgoing
\* dependency links.  The query joins WorkChunk to ChunkLink on
\* ChunkLink.chunk_id, so a target is returned only when it has an
\* outgoing link of its own.
get_prev_chunks(ch, lnk, cid) ==
    { c \in DOMAIN ch : /\ \E j \in lnk : j.chunk_id = c
                        /\ \E l \in lnk : /\ l.chunk_id = cid
                                          /\ l.link_type = "dependency"
                                          /\ l.linked_chunk_id = c }

SetMax(S) == CHOOSE x \in S : \A y \in S : y <= x

\* Returns [start, end].
get_date_window(ch, wk, lnk, cid) ==
    LET General(work, prevDates) ==
            [start |-> IF prevDates # {} THEN Max(Today, SetMax(prevDates) + 1)
                       ELSE Today,
             end |-> IF work.due_date # NoInt THEN work.due_date
                     ELSE Today + DefaultWindowDays]
        Window(work) ==
            IF work.work_type = "support"
            THEN IF work.target_date # NoInt
                 THEN [start |-> work.target_date, end |-> work.target_date]
                 ELSE [start |-> Today, end |-> Today]
            ELSE General(work, { ch[p].assigned_date : p \in
                                   { q \in get_prev_chunks(ch, lnk, cid) :
                                       ch[q].assigned_date # NoInt } })
    IN Window(wk[ch[cid].work_id])

\* _find_slot_for_single_chunk; erows is the order of the Engineer rows.
find_slot_for_single_chunk(ch, wk, lnk, virt, erows, cid, strategy, preferred_engineer_id) ==
    LET Search(window, engineers) ==
            IF engineers = << >> THEN NoSlot
            ELSE select_best_slot(strategy, ch, virt,
                     ConcatAll(Map(LAMBDA e :
                         find_available_slots(ch, wk, virt, e, cid, wk[ch[cid].work_id],
                                              window.start, window.end),
                         engineers)))
    IN Search(get_date_window(ch, wk, lnk, cid),
              get_candidate_engineers(erows, effective_dc(ch, wk, cid),
                                      preferred_engineer_id))

\* _get_preferred_engineer; crows is the order of the WorkChunk rows.
get_preferred_engineer(ch, crows, work_id, current_assignments) ==
    LET FromDb(rows) == IF rows # << >> THEN ch[rows[1]].assigned_engineer_id ELSE Null
        FromSession(mine) ==
            IF mine # << >> THEN mine[1].engineer_id
            ELSE FromDb(SelectSeq(crows, LAMBDA c :
                            /\ c \in DOMAIN ch
                            /\ ch[c].work_id = work_id
                            /\ ch[c].assigned_engineer_id # Null))
    IN FromSession(SelectSeq(current_assignments, LAMBDA a : a.work_id = work_id))

\* PlanningService._update_work_status: the new work table.
update_work_status(ch, wk, work_id) ==
    LET New(statuses) ==
            IF statuses = {} THEN wk
            ELSE IF "in_progress" \in statuses
            THEN [wk EXCEPT ![work_id].status = "in_progress"]
            ELSE IF \A st \in statuses : st = "completed"
            THEN [wk EXCEPT ![work_id].status = "completed"]
            ELSE IF "planned" \in statuses \/ "assigned" \in statuses
            THEN IF "created" \in statuses
                 THEN [wk EXCEPT ![work_id].status = "scheduling"]
                 ELSE [wk EXCEPT ![work_id].status = "assigned"]
            ELSE wk
    IN IF work_id \notin DOMAIN wk THEN wk
       ELSE New({ ch[c].status : c \in { x \in DOMAIN ch : ch[x].work_id = work_id } })

\* Writing a slot to a chunk row.
WriteSlot(row, engineer_id, day, start_time) ==
    [row EXCEPT !.assigned_engineer_id = engineer_id,
                !.assigned_date = day,
                !.assigned_start_time = start_time,
                !.status = "planned"]

\* The triple cleared and the status left as it is.
ClearSlotKeepsStatus(row) ==
    [row EXCEPT !.assigned_engineer_id = Null,
                !.assigned_date = NoInt,
                !.assigned_start_time = NoInt]

ClearSlot(row) ==
    [row EXCEPT !.assigned_engineer_id = Null,
                !.assigned_date = NoInt,
                !.assigned_start_time = NoInt,
                !.status = "created"]

\* ------------------------------------------------------------------------
\* PlanningService public operations.  Each returns the result it reports
\* and the tables as the transaction leaves them.
\* ------------------------------------------------------------------------
\* suggest_slot: [success, suggestion]
suggest_slot(ch, wk, lnk, erows, cid) ==
    LET Result(slot) == [success |-> slot # NoSlot, suggestion |-> slot]
    IN IF cid \notin DOMAIN ch THEN [success |-> FALSE, suggestion |-> NoSlot]
       ELSE IF ch[cid].work_id \notin DOMAIN wk THEN [success |-> FALSE, suggestion |-> NoSlot]
       ELSE Result(find_slot_for_single_chunk(ch, wk, lnk, << >>, erows, cid,
                                              "balanced", Null))

assign_chunk(ch, wk, lnk, erows, cid) ==
    LET Written(ch2) ==
            [success |-> TRUE, chunks |-> ch2,
             works |-> update_work_status(ch2, wk, ch[cid].work_id)]
        Write(res) ==
            IF ~res.success THEN [success |-> FALSE, chunks |-> ch, works |-> wk]
            ELSE Written([ch EXCEPT ![cid] = WriteSlot(@, res.suggestion.engineer_id,
                                                       res.suggestion.date,
                                                       res.suggestion.start_time)])
    IN Write(suggest_slot(ch, wk, lnk, erows, cid))

\* unassign_chunk reporting an error for a chunk that is not planned or
\* assigned.
unassign_chunk_strict(ch, wk, cid) ==
    LET Cleared(ch2) ==
            [success |-> TRUE, chunks |-> ch2,
             works |-> update_work_status(ch2, wk, ch[cid].work_id)]
    IN IF cid \notin DOMAIN ch THEN [success |-> FALSE, chunks |-> ch, works |-> wk]
       ELSE IF ch[cid].status \notin { "planned", "assigned" }
       THEN [success |-> FALSE, chunks |-> ch, works |-> wk]
       ELSE Cleared([ch EXCEPT ![cid] = ClearSlot(@)])

unassign_chunk(ch, wk, cid) ==
    LET Cleared(ch2) ==
            [success |-> TRUE, chunks |-> ch2,
             works |-> update_work_status(ch2, wk, ch[cid].work_id)]
    IN IF cid \notin DOMAIN ch THEN [success |-> FALSE, chunks |-> ch, works |-> wk]
       ELSE IF ch[cid].status \notin { "planned", "assigned" }
       THEN [success |-> TRUE, chunks |-> ch, works |-> wk]
       ELSE Cleared([ch EXCEPT ![cid] = ClearSlot(@)])

SlotToDict(slot, cid, work_id) ==
    [chunk_id |-> cid, work_id |-> work_id, engineer_id |-> slot.engineer_id,
     date |-> slot.date, start_time |-> slot.start_time,
     duration_hours |-> slot.duration_hours, dc_id |-> slot.dc_id,
     priority |-> slot.priority]

\* The loop of assign_all_chunks over sorted_queue from position i on.
\* Writes to chunk rows are flushed before the next query, so later chunks
\* find earlier ones in the chunk table and in the virtual assignments.
RECURSIVE AssignAllLoop(_, _, _, _, _, _, _, _, _, _, _)

\* The loop leaving at the first chunk for which no slot is found.
RECURSIVE AssignAllLoopUntilError(_, _, _, _, _, _, _, _, _, _, _)
AssignAllLoopUntilError(ch, wk, lnk, erows, crows, work_id, strategy, queue, i, assignments, errors) ==
    IF i > Len(queue)
    THEN [chunks |-> ch, assigned_count |-> Len(assignments), errors |-> errors]
    ELSE LET Step(cid, slot) ==
                 IF slot # NoSlot
                 THEN AssignAllLoopUntilError(
                          [ch EXCEPT ![cid] = WriteSlot(@, slot.engineer_id,
                                                        slot.date, slot.start_time)],
                          wk, lnk, erows, crows, work_id, strategy, queue, i + 1,
                          Append(assignments, SlotToDict(slot, cid, work_id)), errors)
                 ELSE [chunks |-> ch, assigned_count |-> Len(assignments),
                       errors |-> errors + 1]
         IN Step(queue[i],
                 find_slot_for_single_chunk(ch, wk, lnk, assignments, erows, queue[i],
                     strategy, get_preferred_engineer(ch, crows, work_id, assignments)))

AssignAllLoop(ch, wk, lnk, erows, crows, work_id, strategy, queue, i, assignments, errors) ==
    IF i > Len(queue)
    THEN [chunks |-> ch, assigned_count |-> Len(assignments), errors |-> errors]
    ELSE LET Step(cid, slot) ==
                 IF slot # NoSlot
                 THEN AssignAllLoop([ch EXCEPT ![cid] = WriteSlot(@, slot.engineer_id,
                                                                  slot.date, slot.start_time)],
                                    wk, lnk, erows, crows, work_id, strategy, queue, i + 1,
                                    Append(assignments, SlotToDict(slot, cid, work_id)),
                                    errors)
                 ELSE AssignAllLoop(ch, wk, lnk, erows, crows, work_id, strategy, queue,
                                    i + 1, assignments, errors + 1)
         IN Step(queue[i],
                 find_slot_for_single_chunk(ch, wk, lnk, assignments, erows, queue[i],
                     strategy, get_preferred_engineer(ch, crows, work_id, assignments)))

assign_all_chunks(ch, wk, lnk, erows, crows, work_id, strategy) ==
    LET Result(run) ==
            [success |-> run.errors = 0,
             assigned_count |-> run.assigned_count,
             errors |-> run.errors,
             chunks |-> run.chunks,
             works |-> IF run.assigned_count > 0
                       THEN update_work_status(run.chunks, wk, work_id)
                       ELSE wk]
        Run(to_assign) ==
            IF to_assign = << >>
            THEN [success |-> TRUE, assigned_count |-> 0, errors |-> 0,
                  chunks |-> ch, works |-> wk]
            ELSE Result(AssignAllLoop(ch, wk, lnk, erows, crows, work_id, strategy,
                                      sort_chunks(strategy, ch, wk, to_assign),
                                      1, << >>, 0))
    IN IF work_id \notin DOMAIN wk
       THEN [success |-> FALSE, assigned_count |-> 0, errors |-> 0,
             chunks |-> ch, works |-> wk]
       ELSE Run(SelectSeq(crows, LAMBDA c : /\ c \in DOMAIN ch
                                            /\ ch[c].work_id = work_id
                                            /\ ch[c].status = "created"))

\* ------------------------------------------------------------------------
\* Planning sessions (PlanningService)
\* ------------------------------------------------------------------------
\* The loop of create_session over sorted_queue from position i on.
RECURSIVE CreateSessionLoop(_, _, _, _, _, _, _, _, _, _)
CreateSessionLoop(ch, wk, lnk, erows, crows, strategy, queue, i, assignments, failed) ==
    IF i > Len(queue) THEN [assignments |-> assignments, failed |-> failed]
    ELSE LET Step(cid, work_id, slot) ==
                 IF slot # NoSlot
                 THEN CreateSessionLoop(ch, wk, lnk, erows, crows, strategy, queue, i + 1,
                                        Append(assignments, SlotToDict(slot, cid, work_id)),
                                        failed)
                 ELSE CreateSessionLoop(ch, wk, lnk, erows, crows, strategy, queue, i + 1,
                                        assignments, Append(failed, cid))
         IN Step(queue[i], ch[queue[i]].work_id,
                 find_slot_for_single_chunk(ch, wk, lnk, assignments, erows, queue[i],
                     strategy,
                     get_preferred_engineer(ch, crows, ch[queue[i]].work_id, assignments)))

\* The chunks of every status.
get_chunks_of_any_status(ch, wk, crows) ==
    SelectSeq(crows, LAMBDA c : c \in DOMAIN ch /\ ch[c].work_id \in DOMAIN wk)

get_unassigned_chunks(ch, wk, crows) ==
    SelectSeq(crows, LAMBDA c : /\ c \in DOMAIN ch
                                /\ ch[c].work_id \in DOMAIN wk
                                /\ ch[c].status = "created")

\* Column default of PlanningSession.expires_at, evaluated at insert.
expires_at_default == now + SessionTTLMinutes

\* create_session: the new PlanningSession row.
create_session(ch, wk, lnk, erows, crows, strategy) ==
    LET Row(sorted_queue, run) ==
            [strategy |-> strategy, status |-> "draft",
             expires_at |-> expires_at_default,
             assignments |-> run.assignments, failed |-> run.failed,
             stats |-> [total |-> Len(sorted_queue),
                        assigned |-> Len(run.assignments),
                        failed |-> Len(run.failed)]]
        Plan(sorted_queue) ==
            Row(sorted_queue,
                CreateSessionLoop(ch, wk, lnk, erows, crows, strategy, sorted_queue,
                                  1, << >>, << >>))
    IN Plan(sort_chunks(strategy, ch, wk, get_unassigned_chunks(ch, wk, crows)))

\* The loop of apply_session without the test of the chunk's status.
RECURSIVE ApplyLoopAnyStatus(_, _, _, _, _, _)
ApplyLoopAnyStatus(ch, assignments, i, upto, work_ids, applied_count) ==
    IF i > upto
    THEN [chunks |-> ch, work_ids |-> work_ids, applied_count |-> applied_count]
    ELSE IF assignments[i].chunk_id \in DOMAIN ch
    THEN ApplyLoopAnyStatus([ch EXCEPT ![assignments[i].chunk_id] =
                                WriteSlot(@, assignments[i].engineer_id, assignments[i].date,
                                          assignments[i].start_time)],
                            assignments, i + 1, upto,
                            work_ids \cup { assignments[i].work_id }, applied_count + 1)
    ELSE ApplyLoopAnyStatus(ch, assignments, i + 1, upto, work_ids, applied_count)

\* The loop of apply_session over session.assignments[i..upto].
RECURSIVE ApplyLoop(_, _, _, _, _, _)
ApplyLoop(ch, assignments, i, upto, work_ids, applied_count) ==
    IF i > upto
    THEN [chunks |-> ch, work_ids |-> work_ids, applied_count |-> applied_count]
    ELSE IF /\ assignments[i].chunk_id \in DOMAIN ch
            /\ ch[assignments[i].chunk_id].status = "created"
    THEN ApplyLoop([ch EXCEPT ![assignments[i].chunk_id] =
                       WriteSlot(@, assignments[i].engineer_id, assignments[i].date,
                                 assignments[i].start_time)],
                   assignments, i + 1, upto,
                   work_ids \cup { assignments[i].work_id }, applied_count + 1)
    ELSE ApplyLoop(ch, assignments, i + 1, upto, work_ids, applied_count)

\* Running _update_work_status for every work of a set.
RECURSIVE UpdateWorks(_, _, _)
UpdateWorks(ch, wk, work_ids) ==
    IF work_ids = {} THEN wk
    ELSE LET Rest(w) == UpdateWorks(ch, update_work_status(ch, wk, w), work_ids \ {w})
         IN Rest(CHOOSE x \in work_ids : TRUE)

\* The check apply_session opens with: the session exists and is a draft.
SessionExists(sess, sid) == sid \in DOMAIN sess

SessionIsDraft(sess, sid) == sid \in DOMAIN sess /\ sess[sid].status = "draft"

\* apply_session.  fail_after = NoInt: the handler runs to its end;
\* fail_after = k: an exception (or the cancellation of the request) ends
\* it after k assignments were processed.
apply_session(ch, wk, sess, sid, fail_after) ==
    LET Result(run) ==
            IF fail_after # NoInt
            THEN [success |-> FALSE, raised |-> TRUE, applied_count |-> run.applied_count,
                  chunks |-> run.chunks, works |-> wk, sessions |-> sess]
            ELSE [success |-> TRUE, raised |-> FALSE, applied_count |-> run.applied_count,
                  chunks |-> run.chunks,
                  works |-> UpdateWorks(run.chunks, wk, run.work_ids),
                  sessions |-> [sess EXCEPT ![sid].status = "applied"]]
    IN IF ~SessionIsDraft(sess, sid)
       THEN [success |-> FALSE, raised |-> FALSE, applied_count |-> 0,
             chunks |-> ch, works |-> wk, sessions |-> sess]
       ELSE Result(ApplyLoop(ch, sess[sid].assignments, 1,
                             IF fail_after = NoInt THEN Len(sess[sid].assignments)
                             ELSE fail_after,
                             {}, 0))

\* The loop of cancel_session over session.assignments from position i on.
RECURSIVE CancelLoop(_, _, _, _)
CancelLoop(ch, assignments, i, work_ids) ==
    IF i > Len(assignments) THEN [chunks |-> ch, work_ids |-> work_ids]
    ELSE IF /\ assignments[i].chunk_id \in DOMAIN ch
            /\ ch[assignments[i].chunk_id].status = "planned"
    THEN CancelLoop([ch EXCEPT ![assignments[i].chunk_id] = ClearSlot(@)],
                    assignments, i + 1, work_ids \cup { assignments[i].work_id })
    ELSE CancelLoop(ch, assignments, i + 1, work_ids)

cancel_session(ch, wk, sess, sid) ==
    LET Result(run) ==
            [success |-> TRUE, raised |-> FALSE,
             chunks |-> run.chunks,
             works |-> UpdateWorks(run.chunks, wk, run.work_ids),
             sessions |-> [sess EXCEPT ![sid].status = "cancelled"]]
    IN IF sid \notin DOMAIN sess
       THEN [success |-> FALSE, raised |-> FALSE,
             chunks |-> ch, works |-> wk, sessions |-> sess]
       ELSE IF sess[sid].status = "applied"
       THEN Result(CancelLoop(ch, sess[sid].assignments, 1, {}))
       ELSE Result([chunks |-> ch, work_ids |-> {}])

\* ------------------------------------------------------------------------
\* BulkSchedulingService: the service behind the routes of
\* /api/planning/sessions.  It writes work statuses through
\* SchedulingServiceV2._update_work_status.
\* ------------------------------------------------------------------------
\* SchedulingServiceV2._update_work_status: the new work table.
scheduling_update_work_status(ch, wk, work_id) ==
    LET Idle(work) ==
            IF work.work_type = "support" THEN "created"
            ELSE IF work.status # "draft" THEN "ready" ELSE "draft"
        New(chunk_statuses) ==
            IF chunk_statuses = {} THEN wk
            ELSE IF \A s \in chunk_statuses : s = "completed"
            THEN [wk EXCEPT ![work_id].status = "completed"]
            ELSE IF chunk_statuses \cap { "planned", "assigned", "in_progress",
                                          "completed" } # {}
            THEN [wk EXCEPT ![work_id].status = "in_progress"]
            ELSE [wk EXCEPT ![work_id].status = Idle(wk[work_id])]
    IN IF work_id \notin DOMAIN wk THEN wk
       ELSE New({ ch[c].status : c \in { x \in DOMAIN ch : ch[x].work_id = work_id } })

\* get_unassigned_chunks: ORDER BY WorkChunk.order, rows of equal order in
\* the order the store returns them.
bulk_get_unassigned_chunks(ch, wk, crows) ==
    SortBy(LAMBDA c : << ch[c].order >>,
           SelectSeq(crows, LAMBDA c : /\ c \in DOMAIN ch
                                        /\ ch[c].work_id \in DOMAIN wk
                                        /\ ch[c].status = "created"))

\* get_assigned_chunks
bulk_get_assigned_chunks(ch, engineer_id, start_date, end_date) ==
    SelectSeq(RowsOf(ch), LAMBDA c :
        /\ ch[c].assigned_engineer_id = engineer_id
        /\ ch[c].assigned_date # NoInt
        /\ ch[c].assigned_date >= start_date
        /\ ch[c].assigned_date <= end_date
        /\ ch[c].status \in { "planned", "assigned", "completed" })

get_work_deadline(work) ==
    CASE work.work_type = "general" -> work.due_date
      [] work.work_type = "support" -> work.target_date
      [] OTHER -> NoInt

get_work_start_date(work) ==
    IF work.work_type = "support" THEN work.target_date ELSE Today

calculate_engineer_load(ch, engineer_id, date_key, existing_assignments) ==
    [used |->
        SumSeq(Map(LAMBDA c : duration_hours(c),
                   bulk_get_assigned_chunks(ch, engineer_id, date_key, date_key)))
        + SumSeq(Map(LAMBDA a : a.duration_hours,
                     SelectSeq(existing_assignments, LAMBDA a :
                         a.engineer_id = engineer_id /\ a.date = date_key))),
     available |-> SlotHours(engineer_id, date_key)]

\* _sort_chunks_by_strategy: no strategy the route accepts is PRIORITY_FIRST.
sort_chunks_by_strategy(ch, wk, strategy, unassigned) ==
    LET deadline_ts(work) == IF get_work_deadline(work) # NoInt
                             THEN get_work_deadline(work) ELSE NoDeadlineOrdinal
        fixed_order(work) == IF work.work_type = "support" THEN 0 ELSE 1
    IN SortBy(LAMBDA c :
                  IF strategy = "priority_first"
                  THEN << priority_map(wk[ch[c].work_id].priority),
                          fixed_order(wk[ch[c].work_id]),
                          deadline_ts(wk[ch[c].work_id]), ch[c].order >>
                  ELSE << fixed_order(wk[ch[c].work_id]),
                          priority_map(wk[ch[c].work_id].priority),
                          deadline_ts(wk[ch[c].work_id]), ch[c].order >>,
              unassigned)

\* The product of the available hours of the engineers, an engineer
\* without hours counting 1.
RECURSIVE AvailableProduct(_, _, _, _)
AvailableProduct(ch, engineers, target_date, existing_assignments) ==
    IF engineers = << >> THEN 1
    ELSE (IF SlotHours(Head(engineers), target_date) > 0
          THEN SlotHours(Head(engineers), target_date) ELSE 1)
         * AvailableProduct(ch, Tail(engineers), target_date, existing_assignments)

\* used / available of _sort_engineers_by_strategy, as a multiple of
\* 1 / product so that the ratios compare as integers; a ratio with no
\* available hours is 1 under balanced.
load_ratio(ch, e, target_date, existing_assignments, product) ==
    IF SlotHours(e, target_date) > 0
    THEN calculate_engineer_load(ch, e, target_date, existing_assignments).used
         * (product \div SlotHours(e, target_date))
    ELSE product

sort_engineers_by_strategy(ch, engineers, existing_assignments, strategy, preferred_engineer_id, target_date) ==
    LET Preferred == IF preferred_engineer_id # Null
                     THEN SelectSeq(engineers, LAMBDA e : e = preferred_engineer_id)
                          \o SelectSeq(engineers, LAMBDA e : e # preferred_engineer_id)
                     ELSE engineers
        product == AvailableProduct(ch, engineers, target_date, existing_assignments)
    IN CASE strategy = "balanced" ->
                SortBy(LAMBDA e : << load_ratio(ch, e, target_date, existing_assignments,
                                                product) >>,
                       Preferred)
         [] strategy = "fill_first" ->
                SortBy(LAMBDA e : << 0 - load_ratio(ch, e, target_date,
                                                    existing_assignments, product) >>,
                       SelectSeq(Preferred, LAMBDA e :
                           calculate_engineer_load(ch, e, target_date,
                                                   existing_assignments).used
                           < SlotHours(e, target_date)))
         [] OTHER -> Preferred

\* The loop of _find_free_start_time over the occupied intervals of one
\* work slot; prev is the position of prev_occ, 0 for None.
RECURSIVE FreeStartInSlot(_, _, _, _, _, _, _)
FreeStartInSlot(slot, occupied, j, current_time, prev, duration, target_dc_id) ==
    LET FromPrev(start) ==
            IF prev # 0
            THEN Max(start, occupied[prev].end
                            + get_travel_time(occupied[prev].dc_id, target_dc_id))
            ELSE start
        potential_start == FromPrev(Max(current_time, slot.start_hour))
        Remainder == IF potential_start + duration <= slot.end_hour
                     THEN potential_start ELSE NoInt
    IN IF j > Len(occupied) THEN Remainder
       ELSE IF occupied[j].end <= slot.start_hour
       THEN FreeStartInSlot(slot, occupied, j + 1, current_time, j, duration, target_dc_id)
       ELSE IF occupied[j].start >= slot.end_hour THEN Remainder
       ELSE IF /\ potential_start + duration
                    + get_travel_time(target_dc_id, occupied[j].dc_id) <= occupied[j].start
               /\ potential_start >= slot.start_hour
               /\ potential_start + duration <= slot.end_hour
       THEN potential_start
       ELSE FreeStartInSlot(slot, occupied, j + 1, Max(current_time, occupied[j].end), j,
                            duration, target_dc_id)

\* The occupied intervals _find_free_start_time collects, sorted by start.
bulk_occupied(ch, wk, engineer_id, date_key, existing_assignments) ==
    SortBy(LAMBDA occ : << occ.start >>,
           Map(LAMBDA c : [start |-> ch[c].assigned_start_time,
                           end |-> ch[c].assigned_start_time + duration_hours(c),
                           dc_id |-> effective_dc(ch, wk, c)],
               SelectSeq(bulk_get_assigned_chunks(ch, engineer_id, date_key, date_key),
                         LAMBDA c : ch[c].assigned_start_time # NoInt))
           \o
           Map(LAMBDA a : [start |-> a.start_time,
                           end |-> a.start_time + a.duration_hours,
                           dc_id |-> a.dc_id],
               SelectSeq(existing_assignments, LAMBDA a :
                   a.engineer_id = engineer_id /\ a.date = date_key)))

\* The loop of _find_free_start_time over the work slots from position i on.
RECURSIVE FreeStartInSlots(_, _, _, _, _)
FreeStartInSlots(slots, i, occupied, duration, target_dc_id) ==
    IF i > Len(slots) THEN NoInt
    ELSE IF occupied = << >>
    THEN IF slots[i].start_hour + duration <= slots[i].end_hour
         THEN slots[i].start_hour
         ELSE FreeStartInSlots(slots, i + 1, occupied, duration, target_dc_id)
    ELSE IF FreeStartInSlot(slots[i], occupied, 1, slots[i].start_hour, 0, duration,
                            target_dc_id) # NoInt
    THEN FreeStartInSlot(slots[i], occupied, 1, slots[i].start_hour, 0, duration,
                         target_dc_id)
    ELSE FreeStartInSlots(slots, i + 1, occupied, duration, target_dc_id)

\* _find_free_start_time; NoInt stands for None.
find_free_start_time(ch, wk, engineer_id, date_key, duration, slots, existing_assignments, target_dc_id) ==
    FreeStartInSlots(slots, 1,
                     bulk_occupied(ch, wk, engineer_id, date_key, existing_assignments),
                     duration, target_dc_id)

\* The body of the loops of find_slot_for_chunk for one engineer and date:
\* the slot found, NoSlot where the loop continues.
slot_of_engineer_on(ch, wk, cid, e, d, existing_assignments) ==
    IF TimeSlots(e, d) = << >> THEN NoSlot
    ELSE IF calculate_engineer_load(ch, e, d, existing_assignments).available
            - calculate_engineer_load(ch, e, d, existing_assignments).used
            < duration_hours(cid)
    THEN NoSlot
    ELSE IF find_free_start_time(ch, wk, e, d, duration_hours(cid), TimeSlots(e, d),
                                 existing_assignments, effective_dc(ch, wk, cid)) = NoInt
    THEN NoSlot
    ELSE [engineer_id |-> e, date |-> d,
          start_time |-> find_free_start_time(ch, wk, e, d, duration_hours(cid),
                             TimeSlots(e, d), existing_assignments,
                             effective_dc(ch, wk, cid)),
          duration_hours |-> duration_hours(cid), dc_id |-> effective_dc(ch, wk, cid),
          priority |-> wk[ch[cid].work_id].priority]

\* The loops of find_slot_for_chunk over sorted_engineers from position i
\* and search_dates from position k on.
RECURSIVE SearchSlots(_, _, _, _, _, _, _, _, _, _, _)
SearchSlots(ch, wk, cid, existing_assignments, strategy, preferred_engineer_id, sorted_engineers, search_dates, i, k, best_slot) ==
    IF i > Len(sorted_engineers) THEN best_slot
    ELSE IF k > Len(search_dates)
    THEN SearchSlots(ch, wk, cid, existing_assignments, strategy, preferred_engineer_id,
                     sorted_engineers, search_dates, i + 1, 1, best_slot)
    ELSE LET slot == slot_of_engineer_on(ch, wk, cid, sorted_engineers[i],
                                         search_dates[k], existing_assignments)
         IN IF slot = NoSlot
            THEN SearchSlots(ch, wk, cid, existing_assignments, strategy,
                             preferred_engineer_id, sorted_engineers, search_dates,
                             i, k + 1, best_slot)
            ELSE IF strategy = "fill_first" THEN slot
            ELSE IF /\ preferred_engineer_id # Null
                    /\ sorted_engineers[i] = preferred_engineer_id
            THEN slot
            ELSE SearchSlots(ch, wk, cid, existing_assignments, strategy,
                             preferred_engineer_id, sorted_engineers, search_dates,
                             i, k + 1,
                             IF best_slot = NoSlot \/ slot.date < best_slot.date
                             THEN slot ELSE best_slot)

\* find_slot_for_chunk; NoSlot stands for None.
find_slot_for_chunk(ch, wk, erows, cid, existing_assignments, strategy, preferred_engineer_id) ==
    LET work == wk[ch[cid].work_id]
        dc_id == effective_dc(ch, wk, cid)
        engineers == IF dc_id # Null /\ dc_id \in DOMAIN dc_regions
                     THEN SelectSeq(erows, LAMBDA e : EngineerRegion[e] = dc_regions[dc_id])
                     ELSE erows
        start_date == IF get_work_start_date(work) # NoInt
                      THEN get_work_start_date(work) ELSE Today
        end_date == IF get_work_deadline(work) # NoInt
                    THEN get_work_deadline(work) ELSE start_date + DefaultWindowDays
        search_dates == IF work.work_type = "support" /\ work.target_date # NoInt
                        THEN << work.target_date >>
                        ELSE [k \in 1..(end_date - start_date + 1) |-> start_date + k - 1]
    IN IF engineers = << >> THEN NoSlot
       ELSE SearchSlots(ch, wk, cid, existing_assignments, strategy,
                        preferred_engineer_id,
                        sort_engineers_by_strategy(ch, engineers, existing_assignments,
                            strategy, preferred_engineer_id,
                            IF search_dates # << >> THEN search_dates[1] ELSE Today),
                        search_dates, 1, 1, NoSlot)

\* The loop of create_planning_session over sorted_chunks from position i
\* on; preferred is work_engineer_map.
RECURSIVE CreatePlanningSessionLoop(_, _, _, _, _, _, _, _, _)
CreatePlanningSessionLoop(ch, wk, erows, strategy, queue, i, assignments, failed, work_engineer_map) ==
    IF i > Len(queue) THEN [assignments |-> assignments, failed |-> failed]
    ELSE LET cid == queue[i]
             work_id == ch[cid].work_id
             slot == find_slot_for_chunk(ch, wk, erows, cid, assignments, strategy,
                         IF work_id \in DOMAIN work_engineer_map
                         THEN work_engineer_map[work_id] ELSE Null)
         IN IF slot # NoSlot
            THEN CreatePlanningSessionLoop(ch, wk, erows, strategy, queue, i + 1,
                     Append(assignments, SlotToDict(slot, cid, work_id)), failed,
                     [w \in DOMAIN work_engineer_map \cup { work_id } |->
                         IF w = work_id THEN slot.engineer_id ELSE work_engineer_map[w]])
            ELSE CreatePlanningSessionLoop(ch, wk, erows, strategy, queue, i + 1,
                     assignments, Append(failed, cid), work_engineer_map)

\* create_planning_session: the new PlanningSession row.
create_planning_session(ch, wk, erows, crows, strategy) ==
    LET Row(unassigned, run) ==
            [strategy |-> strategy, status |-> "draft",
             expires_at |-> expires_at_default,
             assignments |-> run.assignments, failed |-> run.failed,
             stats |-> [total |-> Len(unassigned),
                        assigned |-> Len(run.assignments),
                        failed |-> Len(run.failed)]]
        Plan(unassigned) ==
            Row(unassigned,
                CreatePlanningSessionLoop(ch, wk, erows, strategy,
                    sort_chunks_by_strategy(ch, wk, strategy, unassigned),
                    1, << >>, << >>, << >>))
    IN Plan(bulk_get_unassigned_chunks(ch, wk, crows))

\* The loop of BulkSchedulingService.apply_session from position i on: the
\* work's status is rewritten after every chunk written.
RECURSIVE BulkApplyLoop(_, _, _, _, _)
BulkApplyLoop(ch, wk, assignments, i, applied_count) ==
    IF i > Len(assignments)
    THEN [chunks |-> ch, works |-> wk, applied_count |-> applied_count]
    ELSE IF /\ assignments[i].chunk_id \in DOMAIN ch
            /\ ch[assignments[i].chunk_id].status = "created"
    THEN LET Step(ch2) ==
                 BulkApplyLoop(ch2,
                               scheduling_update_work_status(ch2, wk, assignments[i].work_id),
                               assignments, i + 1, applied_count + 1)
         IN Step([ch EXCEPT ![assignments[i].chunk_id] =
                     WriteSlot(@, assignments[i].engineer_id, assignments[i].date,
                               assignments[i].start_time)])
    ELSE BulkApplyLoop(ch, wk, assignments, i + 1, applied_count)

bulk_apply_session(ch, wk, sess, sid) ==
    LET Result(run) ==
            [success |-> TRUE, applied_count |-> run.applied_count,
             chunks |-> run.chunks, works |-> run.works,
             sessions |-> [sess EXCEPT ![sid].status = "applied"]]
    IN IF sid \notin DOMAIN sess
       THEN [success |-> FALSE, applied_count |-> 0,
             chunks |-> ch, works |-> wk, sessions |-> sess]
       ELSE IF sess[sid].status # "draft"
       THEN [success |-> FALSE, applied_count |-> 0,
             chunks |-> ch, works |-> wk, sessions |-> sess]
       ELSE Result(BulkApplyLoop(ch, wk, sess[sid].assignments, 1, 0))

\* The loop of BulkSchedulingService.cancel_session from position i on.
RECURSIVE BulkCancelLoop(_, _, _, _)
BulkCancelLoop(ch, wk, assignments, i) ==
    IF i > Len(assignments) THEN [chunks |-> ch, works |-> wk]
    ELSE IF /\ assignments[i].chunk_id \in DOMAIN ch
            /\ ch[assignments[i].chunk_id].status = "planned"
    THEN LET Step(ch2) ==
                 BulkCancelLoop(ch2,
                                scheduling_update_work_status(ch2, wk, assignments[i].work_id),
                                assignments, i + 1)
         IN Step([ch EXCEPT ![assignments[i].chunk_id] = ClearSlot(@)])
    ELSE BulkCancelLoop(ch, wk, assignments, i + 1)

bulk_cancel_session(ch, wk, sess, sid) ==
    LET Result(run) ==
            [success |-> TRUE, chunks |-> run.chunks, works |-> run.works,
             sessions |-> [sess EXCEPT ![sid].status = "cancelled"]]
    IN IF sid \notin DOMAIN sess
       THEN [success |-> FALSE, chunks |-> ch, works |-> wk, sessions |-> sess]
       ELSE IF sess[sid].status = "applied"
       THEN Result(BulkCancelLoop(ch, wk, sess[sid].assignments, 1))
       ELSE Result([chunks |-> ch, works |-> wk])

\* ------------------------------------------------------------------------
\* ConstraintsService
\* ------------------------------------------------------------------------
\* _get_earliest_date_from_dependencies: NoInt for None.
get_earliest_date_from_dependencies(ch, dependency_ids) ==
    LET Latest(candidates) ==
            IF candidates = {} THEN NoInt ELSE SetMax(candidates)
    IN Latest({ ch[c].assigned_date + 1 :
                  c \in { d \in dependency_ids \cap DOMAIN ch :
                             ch[d].assigned_date # NoInt } })

\* calculate_chunk_constraints: allowed_region_ids, min_date and max_date
\* (NoInt for None).
calculate_chunk_constraints(ch, wk, lnk, cid) ==
    LET Raise(c, earliest) ==
            IF earliest # NoInt /\ (c.min_date = NoInt \/ earliest > c.min_date)
            THEN [c EXCEPT !.min_date = earliest]
            ELSE c
        Dates(work, dc_id) ==
            [allowed_region_ids |->
                 IF dc_id # Null /\ dc_id \in DOMAIN dc_regions
                 THEN { dc_regions[dc_id] } ELSE {},
             min_date |-> IF work.work_type = "support" THEN work.target_date
                          ELSE Today,
             max_date |-> IF work.work_type = "support" THEN work.target_date
                          ELSE IF work.due_date # NoInt THEN work.due_date
                          ELSE Today + DefaultWindowDays]
    IN Raise(Dates(wk[ch[cid].work_id], effective_dc(ch, wk, cid)),
             get_earliest_date_from_dependencies(ch,
                 { l.linked_chunk_id : l \in { k \in lnk :
                       k.chunk_id = cid /\ k.link_type = "dependency" } }))

\* ------------------------------------------------------------------------
\* Chunk routes of /api/works that write chunk rows directly
\* ------------------------------------------------------------------------
\* update_chunk without the comparison of versions.
update_chunk_unchecked(ch, cid, data) ==
    IF cid \notin DOMAIN ch THEN [status_code |-> 404, chunks |-> ch]
    ELSE [status_code |-> 200,
          chunks |-> [ch EXCEPT ![cid] =
              [f \in DOMAIN @ |-> IF f = "version" THEN @[f] + 1
                                  ELSE IF f \in DOMAIN data THEN data[f]
                                  ELSE @[f]]]]

\* PATCH /works/{w}/chunks/{c}.  data maps the fields the request sets
\* (WorkChunkUpdate dumped with exclude_unset) to their values.
update_chunk(ch, cid, data) ==
    IF cid \notin DOMAIN ch THEN [status_code |-> 404, chunks |-> ch]
    ELSE IF "version" \in DOMAIN data /\ ch[cid].version # data.version
    THEN [status_code |-> 409, chunks |-> ch]
    ELSE [status_code |-> 200,
          chunks |-> [ch EXCEPT ![cid] =
              [f \in DOMAIN @ |-> IF f = "version" THEN @[f] + 1
                                  ELSE IF f \in DOMAIN data THEN data[f]
                                  ELSE @[f]]]]

\* PATCH /works/{w}.  data maps the fields the request sets (WorkUpdate
\* dumped with exclude_unset) to their values; the caller may edit the work.
update_work(wk, wid, data) ==
    IF wid \notin DOMAIN wk THEN [status_code |-> 404, works |-> wk]
    ELSE IF "version" \in DOMAIN data /\ wk[wid].version # data.version
    THEN [status_code |-> 409, works |-> wk]
    ELSE [status_code |-> 200,
          works |-> [wk EXCEPT ![wid] =
              [f \in DOMAIN @ |-> IF f = "version"
                                  THEN (IF "version" \in DOMAIN data
                                        THEN data.version ELSE @[f]) + 1
                                  ELSE IF f \in DOMAIN data THEN data[f]
                                  ELSE @[f]]]]

\* DELETE /works/{w}/chunks/{c}.  The ChunkLink rows of the chunk have
\* non-nullable foreign keys and no cascade: with links the flush fails.
delete_chunk(ch, lnk, cid) ==
    IF cid \notin DOMAIN ch THEN [status_code |-> 404, chunks |-> ch]
    ELSE IF \E l \in lnk : l.chunk_id = cid \/ l.linked_chunk_id = cid
    THEN [status_code |-> 500, chunks |-> ch]
    ELSE [status_code |-> 200, chunks |-> [c \in DOMAIN ch \ {cid} |-> ch[c]]]

\* POST /works/chunks/confirm-planned
confirm_planned_chunks(ch) ==
    [c \in DOMAIN ch |-> IF ch[c].status = "planned"
                         THEN [ch[c] EXCEPT !.status = "assigned"]
                         ELSE ch[c]]

\* POST /works/{w}/cancel-all-chunks
cancel_all_chunks(ch, work_id) ==
    [c \in DOMAIN ch |-> IF /\ ch[c].work_id = work_id
                            /\ ch[c].status \in { "planned", "assigned" }
                         THEN ClearSlot(ch[c])
                         ELSE ch[c]]

\* ------------------------------------------------------------------------
\* Transactions (database.get_db)
\* ------------------------------------------------------------------------
\* The store after the request: the handler's tables are committed unless
\* the handler raised, in which case the transaction is rolled back.
get_db_no_rollback(committed, raised, tx) == tx

get_db(committed, raised, tx) == IF raised THEN committed ELSE tx

Store == [works |-> works, chunks |-> chunks, sessions |-> sessions]

Outcome(success, raised) ==
    IF raised THEN "raised" ELSE IF success THEN "ok" ELSE "failed"

\* One request: tx is the store as the handler's transaction leaves it.
Request(op, sid, result, raised, tx) ==
    LET After(st) == /\ works' = st.works
                     /\ chunks' = st.chunks
                     /\ sessions' = st.sessions
    IN /\ After(get_db(Store, raised, tx))
       /\ last' = [op |-> op, sid |-> sid, result |-> result]
       /\ now' = now
       /\ txs' = txs
       /\ UNCHANGED syncvars
       /\ UNCHANGED runs

\* One request of a handler that broadcasts: events are the event types it
\* hands to sync_service.broadcast, in order.
RequestBroadcasting(op, sid, result, raised, tx, events) ==
    LET After(st) == /\ works' = st.works
                     /\ chunks' = st.chunks
                     /\ sessions' = st.sessions
    IN /\ After(get_db(Store, raised, tx))
       /\ last' = [op |-> op, sid |-> sid, result |-> result, events |-> events]
       /\ now' = now
       /\ txs' = txs
       /\ UNCHANGED syncvars
       /\ UNCHANGED runs

EngineerRowOrders == { << "e1", "e2", "e3" >>, << "e3", "e2", "e1" >> }
ChunkRowOrders == { << "c1", "c2", "c3", "c4", "c0" >>, << "c0", "c4", "c3", "c2", "c1" >> }

\* Requests served side by side, each in its own get_db transaction.
TxIds == { "t1", "t2" }

\* A request slot nobody uses.
IdleTx == [pc |-> "idle", cid |-> Null, data |-> << >>, row |-> << >>,
           writes |-> << >>, status_code |-> 0]

\* Requests to create a session served side by side, each by the
\* PlanningService its handler constructs.
RunIds == { "p1", "p2" }

\* PlanningService.__init__ and PlanningContext.__init__: a context whose
\* _virtual_assignments is empty, and no queue yet.
IdleRun == [pc |-> "idle", strategy |-> Null, erows |-> << >>, crows |-> << >>,
            queue |-> << >>, i |-> 0, assignments |-> << >>, failed |-> << >>,
            _virtual_assignments |-> << >>]

\* The columns the unit of work flushes: those whose value differs from the
\* row as it was loaded.
DirtyColumns(row, new) == { f \in DOMAIN row : new[f] # row[f] }

\* ------------------------------------------------------------------------
\* SyncService and the SSE stream
\* ------------------------------------------------------------------------
\* The client_id values uuid4 gives to the streams, and the request
\* handlers that broadcast.
ClientIds == { "k1", "k2" }
BroadcasterIds == { "b1", "b2" }

\* asyncio.Lock: the task that holds it and the tasks waiting, first come
\* first served.
FreeLock == [holder |-> Null, waiters |-> << >>]

\* async with self._lock, entry: task t gets the lock at once when it is
\* free and nobody waits, and queues up otherwise.
Acquire(l, t) ==
    IF l.holder = Null /\ l.waiters = << >>
    THEN [l EXCEPT !.holder = t]
    ELSE [l EXCEPT !.waiters = Append(@, t)]

\* async with self._lock, exit: the lock goes to the first waiter.
Release(l) ==
    IF l.waiters = << >> THEN [l EXCEPT !.holder = Null]
    ELSE [holder |-> Head(l.waiters), waiters |-> Tail(l.waiters)]

\* A critical section entered without the lock.
HoldsNothing(l, t) == TRUE

\* Task t is inside async with self._lock.
Holds(l, t) == l.holder = t

Registered(subs) == { subs[i].client_id : i \in 1..Len(subs) }

QueueOf(subs, client_id) ==
    LET At(i) == subs[i].queue
    IN At(CHOOSE i \in 1..Len(subs) : subs[i].client_id = client_id)

\* The body of subscribe: a new queue under the client's key.
subscribe(subs, client_id) ==
    IF client_id \in Registered(subs)
    THEN [i \in 1..Len(subs) |->
            IF subs[i].client_id = client_id THEN [subs[i] EXCEPT !.queue = << >>]
            ELSE subs[i]]
    ELSE Append(subs, [client_id |-> client_id, queue |-> << >>])

\* unsubscribe leaving the registry as it is.
unsubscribe_keeps(subs, client_id) == subs

\* The body of unsubscribe.
unsubscribe(subs, client_id) ==
    SelectSeq(subs, LAMBDA sub : sub.client_id # client_id)

\* queue.put on the queue of client_id, if the registry still holds it.
put(subs, client_id, event_json) ==
    [i \in 1..Len(subs) |->
        IF subs[i].client_id = client_id
        THEN [subs[i] EXCEPT !.queue = Append(@, event_json)]
        ELSE subs[i]]

\* queue.get on the queue of client_id.
get(subs, client_id) ==
    [i \in 1..Len(subs) |->
        IF subs[i].client_id = client_id
        THEN [subs[i] EXCEPT !.queue = Tail(@)]
        ELSE subs[i]]

\* The messages of the stream.
Connected == [event |-> "connected"]
Sync(event_data) == [event |-> "sync", data |-> event_data]
Ping == [event |-> "ping"]

\* A stream nobody opened.  first: the event of the first message emitted;
\* out: the messages emitted since the loop last tested the connection;
\* delivered: the data of the sync messages emitted.
IdleStream == [pc |-> "idle", first |-> Null, out |-> << >>, delivered |-> << >>,
               disconnected |-> FALSE]

\* A handler that is not broadcasting.
\* failed: the clients whose queue.put raised in this call.
IdleBroadcast == [pc |-> "idle", event |-> 0, todo |-> << >>, failed |-> {}]

\* ------------------------------------------------------------------------
\* Actions: one per handler
\* ------------------------------------------------------------------------
InitWith(configs) ==
    /\ \E cfg \in configs :
        /\ works = InitWorks(cfg.target_time)
        /\ chunks = [c \in cfg.chunk_ids |-> InitChunks[c]]
        /\ links = cfg.links
    /\ sessions = << >>
    /\ last = [op |-> "init", sid |-> 0, result |-> "ok"]
    /\ now = 0
    /\ txs = [t \in TxIds |-> IdleTx]
    /\ runs = [r \in RunIds |-> IdleRun]
    /\ subscribers = << >>
    /\ lock = FreeLock
    /\ streams = [k \in ClientIds |-> IdleStream]
    /\ broadcasts = [b \in BroadcasterIds |-> IdleBroadcast]
    /\ journal = [issued |-> 0,
                  puts |-> [k \in ClientIds |-> << >>],
                  expected |-> [k \in ClientIds |-> << >>]]

Init == InitWith(Configs)

\* POST /works/{w}/chunks/{c}/auto-assign: HTTP 400 when no slot was found
auto_assign_chunk ==
    \E cid \in ChunkIds \cup TasklessChunkIds, erows \in EngineerRowOrders :
        LET Respond(res) ==
                Request("assign_chunk", 0, Outcome(res.success, FALSE), ~res.success,
                        [works |-> res.works, chunks |-> res.chunks, sessions |-> sessions])
        IN /\ Respond(assign_chunk(chunks, works, links, erows, cid))
           /\ UNCHANGED links

\* POST /works/{w}/chunks/{c}/unassign
unassign_chunk_route ==
    \E cid \in ChunkIds :
        LET Respond(res) ==
                Request("unassign_chunk", 0, Outcome(res.success, FALSE), ~res.success,
                        [works |-> res.works, chunks |-> res.chunks, sessions |-> sessions])
        IN /\ Respond(unassign_chunk(chunks, works, cid))
           /\ UNCHANGED links

\* POST /works/{w}/auto-assign
auto_assign_work ==
    \E wid \in WorkIds, strategy \in Strategies,
       erows \in EngineerRowOrders, crows \in ChunkRowOrders :
        LET Respond(res) ==
                Request("assign_all_chunks", 0, Outcome(res.success, FALSE), FALSE,
                        [works |-> res.works, chunks |-> res.chunks, sessions |-> sessions])
        IN /\ Respond(assign_all_chunks(chunks, works, links, erows, crows, wid, strategy))
           /\ UNCHANGED links

CreateSession ==
    /\ Len(sessions) < MaxSessions
    /\ \E strategy \in Strategies, erows \in EngineerRowOrders, crows \in ChunkRowOrders :
        Request("create_session", Len(sessions) + 1, "ok", FALSE,
                [works |-> works, chunks |-> chunks,
                 sessions |-> Append(sessions,
                     create_session(chunks, works, links, erows, crows, strategy))])
    /\ UNCHANGED links

ApplySession ==
    \E sid \in 1..(MaxSessions + 1) :
        LET Respond(res) ==
                Request("apply_session", sid, Outcome(res.success, FALSE), ~res.success,
                        [works |-> res.works, chunks |-> res.chunks,
                         sessions |-> res.sessions])
        IN /\ Respond(apply_session(chunks, works, sessions, sid, NoInt))
           /\ UNCHANGED links

\* apply_session interrupted by an exception after fail_after assignments
ApplySessionInterrupted ==
    \E sid \in DOMAIN sessions :
        /\ sessions[sid].status = "draft"
        /\ \E fail_after \in 0..Len(sessions[sid].assignments) :
            LET Respond(res) ==
                    Request("apply_session", sid, Outcome(res.success, res.raised),
                            res.raised,
                            [works |-> res.works, chunks |-> res.chunks,
                             sessions |-> res.sessions])
            IN /\ Respond(apply_session(chunks, works, sessions, sid, fail_after))
               /\ UNCHANGED links

CancelSession ==
    \E sid \in 1..(MaxSessions + 1) :
        LET Respond(res) ==
                Request("cancel_session", sid, Outcome(res.success, FALSE), ~res.success,
                        [works |-> res.works, chunks |-> res.chunks,
                         sessions |-> res.sessions])
        IN /\ Respond(cancel_session(chunks, works, sessions, sid))
           /\ UNCHANGED links

\* POST /planning/sessions/{id}/apply: HTTP 400 when the service refuses
BulkApplySession ==
    \E sid \in 1..(MaxSessions + 1) :
        LET Respond(res) ==
                RequestBroadcasting("apply_session", sid, Outcome(res.success, FALSE),
                        ~res.success,
                        [works |-> res.works, chunks |-> res.chunks,
                         sessions |-> res.sessions],
                        IF res.success THEN << "planning_session_applied" >> ELSE << >>)
        IN /\ Respond(bulk_apply_session(chunks, works, sessions, sid))
           /\ UNCHANGED links

\* POST /planning/sessions/{id}/cancel
BulkCancelSession ==
    \E sid \in 1..(MaxSessions + 1) :
        LET Respond(res) ==
                RequestBroadcasting("cancel_session", sid, Outcome(res.success, FALSE),
                        ~res.success,
                        [works |-> res.works, chunks |-> res.chunks,
                         sessions |-> res.sessions],
                        IF res.success THEN << "planning_session_cancelled" >> ELSE << >>)
        IN /\ Respond(bulk_cancel_session(chunks, works, sessions, sid))
           /\ UNCHANGED links

\* PATCH bodies the model sends.
ChunkUpdates == { [status |-> "in_progress"],
                  [status |-> "completed", version |-> 1],
                  [assigned_engineer_id |-> "e1"] }

\* PATCH /works/{w}/chunks/{c}
PatchChunk ==
    \E cid \in ChunkIds, data \in ChunkUpdates :
        LET Respond(res) ==
                Request("update_chunk", 0, Outcome(res.status_code = 200, FALSE),
                        res.status_code # 200,
                        [works |-> works, chunks |-> res.chunks, sessions |-> sessions])
        IN /\ update_chunk(chunks, cid, data).status_code = 200
              => chunks[cid].version < MaxVersion
           /\ Respond(update_chunk(chunks, cid, data))
           /\ UNCHANGED links

\* DELETE /works/{w}/chunks/{c}
DeleteChunk ==
    \E cid \in ChunkIds :
        LET Respond(res) ==
                Request("delete_chunk", 0, Outcome(res.status_code = 200, FALSE),
                        res.status_code # 200,
                        [works |-> works, chunks |-> res.chunks, sessions |-> sessions])
        IN /\ Respond(delete_chunk(chunks, links, cid))
           /\ UNCHANGED links

\* POST /works/chunks/confirm-planned
ConfirmPlanned ==
    /\ Request("confirm_planned_chunks", 0, "ok", FALSE,
               [works |-> works, chunks |-> confirm_planned_chunks(chunks),
                sessions |-> sessions])
    /\ UNCHANGED links

\* POST /works/{w}/cancel-all-chunks
CancelAllChunks ==
    \E wid \in WorkIds :
        /\ Request("cancel_all_chunks", 0, "ok", FALSE,
                   [works |-> works, chunks |-> cancel_all_chunks(chunks, wid),
                    sessions |-> sessions])
        /\ UNCHANGED links

Next ==
    \/ auto_assign_chunk
    \/ unassign_chunk_route
    \/ auto_assign_work
    \/ CreateSession
    \/ ApplySession
    \/ ApplySessionInterrupted
    \/ CancelSession

Spec == Init /\ [][Next]_vars


\* The planning operations together with the chunk routes, on stores of
\* one chunk.
InitRoutes == InitWith({ Config({ "c1" }, {}, NoInt), Config({ "c3" }, {}, 14) })

NextRoutes ==
    \/ auto_assign_chunk
    \/ unassign_chunk_route
    \/ auto_assign_work
    \/ CreateSession
    \/ ApplySession
    \/ ApplySessionInterrupted
    \/ CancelSession
    \/ PatchChunk
    \/ DeleteChunk
    \/ ConfirmPlanned
    \/ CancelAllChunks

SpecRoutes == InitRoutes /\ [][NextRoutes]_vars

\* A session applied after its chunks were assigned, confirmed, patched or
\* deleted by other requests.
InitStale == InitWith({ Config({ "c1", "c3" }, {}, 14) })

NextStale ==
    \/ auto_assign_chunk
    \/ CreateSession
    \/ ApplySession
    \/ PatchChunk
    \/ DeleteChunk
    \/ ConfirmPlanned

SpecStale == InitStale /\ [][NextStale]_vars

\* Two sessions computed from different calendars and both applied.
CreateSecondSession ==
    /\ Len(sessions) < MaxSessions + 1
    /\ \E strategy \in Strategies, erows \in EngineerRowOrders, crows \in ChunkRowOrders :
        Request("create_session", Len(sessions) + 1, "ok", FALSE,
                [works |-> works, chunks |-> chunks,
                 sessions |-> Append(sessions,
                     create_session(chunks, works, links, erows, crows, strategy))])
    /\ UNCHANGED links

InitTwo == InitWith({ Config({ "c1", "c2" }, {}, NoInt) })

NextTwo ==
    \/ auto_assign_chunk
    \/ unassign_chunk_route
    \/ CreateSecondSession
    \/ ApplySession

SpecTwo == InitTwo /\ [][NextTwo]_vars

\* PATCH bodies that move a chunk to a data center of the other region.
DataCenterUpdates == { [data_center_id |-> "dcC"] }

\* PATCH /works/{w}/chunks/{c} with a new data_center_id
PatchDataCenter ==
    \E cid \in ChunkIds, data \in DataCenterUpdates :
        LET Respond(res) ==
                Request("update_chunk", 0, Outcome(res.status_code = 200, FALSE),
                        res.status_code # 200,
                        [works |-> works, chunks |-> res.chunks, sessions |-> sessions])
        IN /\ update_chunk(chunks, cid, data).status_code = 200
              => chunks[cid].version < MaxVersion
           /\ Respond(update_chunk(chunks, cid, data))
           /\ UNCHANGED links

\* Planning while chunks are moved between data centers.
InitRegion == InitWith({ Config({ "c1", "c4" }, {}, NoInt) })

NextRegion ==
    \/ auto_assign_chunk
    \/ unassign_chunk_route
    \/ auto_assign_work
    \/ CreateSession
    \/ ApplySession
    \/ PatchDataCenter

SpecRegion == InitRegion /\ [][NextRegion]_vars

\* Time passes between requests.
Tick ==
    /\ now + TickMinutes <= MaxClock
    /\ now' = now + TickMinutes
    /\ UNCHANGED << works, chunks, links, sessions, last, txs >>
    /\ UNCHANGED syncvars
    /\ UNCHANGED runs

\* Draft sessions while the clock runs past their expires_at.
InitExpiry == InitWith({ Config({ "c1", "c2" }, {}, NoInt),
                         Config({ "c1", "c3" }, {}, 14) })

NextExpiry ==
    \/ Tick
    \/ CreateSession
    \/ ApplySession
    \/ CancelSession

SpecExpiry == InitExpiry /\ [][NextExpiry]_vars

\* PATCH bodies for works the model sends.
WorkUpdates == { [priority |-> "critical"],
                 [priority |-> "low", version |-> 1] }

\* PATCH /works/{w}
PatchWork ==
    \E wid \in WorkIds, data \in WorkUpdates :
        LET Respond(res) ==
                Request("update_work", 0, Outcome(res.status_code = 200, FALSE),
                        res.status_code # 200,
                        [works |-> res.works, chunks |-> chunks, sessions |-> sessions])
        IN /\ update_work(works, wid, data).status_code = 200
              => works[wid].version < MaxVersion
           /\ Respond(update_work(works, wid, data))
           /\ UNCHANGED links

\* Versioned updates of works and chunks between planning operations.
NextVersion ==
    \/ PatchChunk
    \/ PatchWork
    \/ auto_assign_chunk
    \/ unassign_chunk_route
    \/ ConfirmPlanned

SpecVersion == InitRoutes /\ [][NextVersion]_vars

\* update_chunk, first statement: the SELECT of the chunk row.  The row is
\* read as committed (READ COMMITTED, no FOR UPDATE); a missing row is
\* answered 404.
PatchSelect ==
    \E t \in TxIds, cid \in ChunkIds, data \in ChunkUpdates :
        /\ txs[t].pc = "idle"
        /\ txs' = [txs EXCEPT ![t] =
               IF cid \in DOMAIN chunks
               THEN [IdleTx EXCEPT !.pc = "selected", !.cid = cid, !.data = data,
                                   !.row = chunks[cid]]
               ELSE [IdleTx EXCEPT !.pc = "done", !.cid = cid, !.data = data,
                                   !.status_code = 404]]
        /\ last' = [op |-> "update_chunk", sid |-> 0,
                    result |-> IF cid \in DOMAIN chunks THEN "selected" ELSE "failed"]
        /\ UNCHANGED << works, chunks, links, sessions, now >>
        /\ UNCHANGED syncvars
        /\ UNCHANGED runs

\* update_chunk from the version check to db.flush(): the handler works on
\* the row it loaded.  A version mismatch is answered 409 and the
\* transaction rolled back; otherwise the UPDATE of the dirty columns is
\* sent, which waits while another transaction holds the row.
PatchFlush ==
    \E t \in TxIds :
        LET Flush(res) ==
                IF res.status_code # 200
                THEN txs' = [txs EXCEPT ![t].pc = "done",
                                        ![t].status_code = res.status_code]
                ELSE txs' = [txs EXCEPT
                        ![t].pc = "flushed",
                        ![t].writes = [f \in DirtyColumns(txs[t].row,
                                                          res.chunks[txs[t].cid])
                                          |-> res.chunks[txs[t].cid][f]]]
        IN /\ txs[t].pc = "selected"
           /\ \A u \in TxIds \ {t} :
                 ~(txs[u].pc = "flushed" /\ txs[u].cid = txs[t].cid)
           /\ Flush(update_chunk((txs[t].cid :> txs[t].row), txs[t].cid, txs[t].data))
           /\ last' = [op |-> "update_chunk", sid |-> 0, result |-> "flushed"]
           /\ UNCHANGED << works, chunks, links, sessions, now >>
           /\ UNCHANGED syncvars
           /\ UNCHANGED runs

\* get_db after the handler returned 200: session.commit().  The UPDATE
\* sets its columns on the row as it is committed now.
PatchCommit ==
    \E t \in TxIds :
        /\ txs[t].pc = "flushed"
        /\ chunks' = IF txs[t].cid \in DOMAIN chunks
                      THEN [chunks EXCEPT ![txs[t].cid] =
                               [f \in DOMAIN @ |-> IF f \in DOMAIN txs[t].writes
                                                   THEN txs[t].writes[f] ELSE @[f]]]
                      ELSE chunks
        /\ txs' = [txs EXCEPT ![t].pc = "done", ![t].status_code = 200]
        /\ last' = [op |-> "update_chunk", sid |-> 0, result |-> "ok"]
        /\ UNCHANGED << works, links, sessions, now >>
        /\ UNCHANGED syncvars
        /\ UNCHANGED runs

\* PATCH requests on chunks served side by side.
InitConcurrent == InitWith({ Config({ "c1", "c3" }, {}, 14) })

NextConcurrent ==
    \/ PatchSelect
    \/ PatchFlush
    \/ PatchCommit

SpecConcurrent == InitConcurrent /\ [][NextConcurrent]_vars

\* GET /works/{w}/chunks/{c}/suggest-slot: HTTP 404 for a chunk that is not
\* a chunk of the work; nothing is written.
suggest_slot_for_chunk ==
    \E wid \in WorkIds, cid \in ChunkIds \cup TasklessChunkIds,
       erows \in EngineerRowOrders :
        LET Found == cid \in DOMAIN chunks /\ chunks[cid].work_id = wid
            Respond(res) ==
                last' = [op |-> "suggest_slot", sid |-> 0,
                         result |-> IF ~Found THEN "raised"
                                    ELSE Outcome(res.success, FALSE),
                         cid |-> cid,
                         suggestion |-> IF Found THEN res.suggestion ELSE NoSlot]
        IN /\ Respond(suggest_slot(chunks, works, links, erows, cid))
           /\ UNCHANGED << works, chunks, links, sessions, now, txs >>
           /\ UNCHANGED syncvars
           /\ UNCHANGED runs

\* Stores with a dependency the planner reads: a general chunk whose
\* dependency has a link of its own, and a support chunk that depends on a
\* chunk of the general work.
InitSuggest ==
    InitWith({ Config({ "c1", "c2" }, { Link("c1", "c2", "dependency"),
                                        Link("c2", "c1", "sync") }, NoInt),
               Config({ "c1", "c3" }, { Link("c3", "c1", "dependency") }, 14) })

NextSuggest ==
    \/ suggest_slot_for_chunk
    \/ auto_assign_chunk
    \/ unassign_chunk_route
    \/ auto_assign_work

SpecSuggest == InitSuggest /\ [][NextSuggest]_vars

\* POST /works/{w}/auto-assign without a body: the strategy is balanced.
auto_assign_work_balanced ==
    \E wid \in WorkIds, erows \in EngineerRowOrders, crows \in ChunkRowOrders :
        LET Respond(res) ==
                /\ works' = get_db(Store, FALSE, [works |-> res.works]).works
                /\ chunks' = get_db(Store, FALSE, [chunks |-> res.chunks]).chunks
                /\ last' = [op |-> "assign_all_chunks", sid |-> 0,
                            result |-> Outcome(res.success, FALSE),
                            work_id |-> wid, strategy |-> "balanced"]
        IN /\ Respond(assign_all_chunks(chunks, works, links, erows, crows, wid,
                                        "balanced"))
           /\ UNCHANGED << links, sessions, now, txs >>
           /\ UNCHANGED syncvars
           /\ UNCHANGED runs

\* Stores with two chunks of the general work under a dependency: the
\* dependent chunk has the higher order value in the first and the lower
\* one in the second, where the chunk it depends on has a link of its own.
InitDependency ==
    InitWith({ Config({ "c1", "c2" }, { Link("c2", "c1", "dependency") }, NoInt),
               Config({ "c1", "c2", "c3" }, { Link("c1", "c2", "dependency"),
                                              Link("c2", "c3", "dependency") }, 14) })

NextDependency ==
    \/ auto_assign_work_balanced
    \/ auto_assign_chunk
    \/ unassign_chunk_route

SpecDependency == InitDependency /\ [][NextDependency]_vars

\* Two general works that agree on type, priority and due date.
TiedWorks == [w \in WorkIds |->
    [work_type |-> "general", priority |-> "medium", status |-> "draft",
     due_date |-> NumDays, target_date |-> NoInt, target_time |-> NoInt,
     data_center_id |-> IF w = "w1" THEN "dcA" ELSE "dcB", version |-> 1]]

\* A store in which both works have one created chunk with order 0: the
\* chunks tie on the sort key of every strategy but dense.
InitTie ==
    /\ works = TiedWorks
    /\ chunks = [c \in { "c1", "c3" } |-> InitChunks[c]]
    /\ links = {}
    /\ sessions = << >>
    /\ last = [op |-> "init", sid |-> 0, result |-> "ok"]
    /\ now = 0
    /\ txs = [t \in TxIds |-> IdleTx]
    /\ runs = [r \in RunIds |-> IdleRun]
    /\ subscribers = << >>
    /\ lock = FreeLock
    /\ streams = [k \in ClientIds |-> IdleStream]
    /\ broadcasts = [b \in BroadcasterIds |-> IdleBroadcast]
    /\ journal = [issued |-> 0,
                  puts |-> [k \in ClientIds |-> << >>],
                  expected |-> [k \in ClientIds |-> << >>]]

NextTie ==
    \/ CreateSession
    \/ ApplySession
    \/ CancelSession
    \/ auto_assign_chunk
    \/ unassign_chunk_route

SpecTie == InitTie /\ [][NextTie]_vars

\* Distance tables over the pair (dcA, dcB): each direction is absent
\* (NoInt) or holds one of the durations.
MinuteValues == { 0, 1, 60, 61, 90 }

CacheOf(ab, ba) ==
    LET Pairs == (IF ab # NoInt THEN { << "dcA", "dcB" >> } ELSE {})
                 \cup (IF ba # NoInt THEN { << "dcB", "dcA" >> } ELSE {})
    IN [p \in Pairs |-> IF p = << "dcA", "dcB" >> THEN ab ELSE ba]

TravelCaches == { CacheOf(ab, ba) : ab, ba \in MinuteValues \cup { NoInt } }

\* A context whose distance cache was loaded from one of the tables.
InitTravel ==
    /\ works = InitWorks(NoInt)
    /\ chunks = [c \in { "c1" } |-> InitChunks[c]]
    /\ links = {}
    /\ sessions = << >>
    /\ \E cache \in TravelCaches :
          last = [op |-> "init", sid |-> 0, result |-> "ok", cache |-> cache]
    /\ now = 0
    /\ txs = [t \in TxIds |-> IdleTx]
    /\ runs = [r \in RunIds |-> IdleRun]
    /\ subscribers = << >>
    /\ lock = FreeLock
    /\ streams = [k \in ClientIds |-> IdleStream]
    /\ broadcasts = [b \in BroadcasterIds |-> IdleBroadcast]
    /\ journal = [issued |-> 0,
                  puts |-> [k \in ClientIds |-> << >>],
                  expected |-> [k \in ClientIds |-> << >>]]

\* One call of get_travel_time on the loaded cache.
TravelQuery ==
    \E from_dc, to_dc \in DataCenters \cup { Null } :
        /\ last' = [op |-> "get_travel_time", sid |-> 0, result |-> "ok",
                    cache |-> last.cache, from_dc |-> from_dc, to_dc |-> to_dc,
                    hours |-> travel_time(last.cache, from_dc, to_dc)]
        /\ UNCHANGED << works, chunks, links, sessions, now, txs >>
        /\ UNCHANGED syncvars
        /\ UNCHANGED runs

NextTravel == TravelQuery

SpecTravel == InitTravel /\ [][NextTravel]_vars

\* The planning operations as the routes serve them: single chunks and whole
\* works through PlanningService, sessions through BulkSchedulingService.
NextBulk ==
    \/ auto_assign_chunk
    \/ unassign_chunk_route
    \/ auto_assign_work
    \/ CreateSession
    \/ BulkApplySession
    \/ BulkCancelSession

SpecBulk == InitRoutes /\ [][NextBulk]_vars

\* ------------------------------------------------------------------------
\* Actions of the event bus: the steps of every coroutine between two
\* points where it can be suspended
\* ------------------------------------------------------------------------
\* yield of the generator.
Emit(stream, message) ==
    [stream EXCEPT !.first = IF @ = Null THEN message.event ELSE @,
                   !.out = Append(@, message),
                   !.delivered = IF message.event = "sync"
                                 THEN Append(@, message.data) ELSE @]

\* GET /sync/stream: the generator starts and calls subscribe.
StreamOpen(k) ==
    /\ streams[k].pc = "idle"
    /\ streams' = [streams EXCEPT ![k].pc = "subscribing"]
    /\ lock' = Acquire(lock, k)
    /\ UNCHANGED << subscribers, broadcasts, journal >>
    /\ UNCHANGED planvars

\* subscribe inside the lock, then the first yield.
StreamSubscribed(k) ==
    /\ streams[k].pc = "subscribing"
    /\ Holds(lock, k)
    /\ subscribers' = subscribe(subscribers, k)
    /\ lock' = Release(lock)
    /\ streams' = [streams EXCEPT ![k] = [Emit(@, Connected) EXCEPT !.pc = "loop"]]
    /\ UNCHANGED << broadcasts, journal >>
    /\ UNCHANGED planvars

\* The top of the loop: request.is_disconnected(), break into finally.
StreamLoop(k) ==
    /\ streams[k].pc = "loop"
    /\ IF streams[k].disconnected
       THEN /\ streams' = [streams EXCEPT ![k].pc = "finally"]
            /\ lock' = Acquire(lock, k)
       ELSE /\ streams' = [streams EXCEPT ![k].pc = "waiting", ![k].out = << >>]
            /\ lock' = lock
    /\ UNCHANGED << subscribers, broadcasts, journal >>
    /\ UNCHANGED planvars

\* wait_for(queue.get()) returns an event: yield sync.
StreamGet(k) ==
    /\ streams[k].pc = "waiting"
    /\ k \in Registered(subscribers)
    /\ QueueOf(subscribers, k) # << >>
    /\ streams' = [streams EXCEPT ![k] =
                      [Emit(@, Sync(Head(QueueOf(subscribers, k)))) EXCEPT !.pc = "loop"]]
    /\ subscribers' = get(subscribers, k)
    /\ UNCHANGED << lock, broadcasts, journal >>
    /\ UNCHANGED planvars

\* wait_for times out on the empty queue: yield ping.
StreamTimeout(k) ==
    /\ streams[k].pc = "waiting"
    /\ k \in Registered(subscribers) => QueueOf(subscribers, k) = << >>
    /\ streams' = [streams EXCEPT ![k] = [Emit(@, Ping) EXCEPT !.pc = "loop"]]
    /\ UNCHANGED << subscribers, lock, broadcasts, journal >>
    /\ UNCHANGED planvars

\* The response closes the generator of a client that went away where it
\* is suspended: control passes to finally.
StreamClosed(k) ==
    /\ streams[k].pc \in { "loop", "waiting" }
    /\ streams[k].disconnected
    /\ streams' = [streams EXCEPT ![k].pc = "finally"]
    /\ lock' = Acquire(lock, k)
    /\ UNCHANGED << subscribers, broadcasts, journal >>
    /\ UNCHANGED planvars

\* finally: unsubscribe inside the lock.
StreamUnsubscribe(k) ==
    /\ streams[k].pc = "finally"
    /\ Holds(lock, k)
    /\ subscribers' = unsubscribe(subscribers, k)
    /\ lock' = Release(lock)
    /\ streams' = [streams EXCEPT ![k].pc = "closed"]
    /\ UNCHANGED << broadcasts, journal >>
    /\ UNCHANGED planvars

\* The client of an open stream goes away.
ClientDisconnect(k) ==
    /\ streams[k].pc \notin { "idle", "closed" }
    /\ ~streams[k].disconnected
    /\ streams' = [streams EXCEPT ![k].disconnected = TRUE]
    /\ UNCHANGED << subscribers, lock, broadcasts, journal >>
    /\ UNCHANGED planvars

\* broadcast is called: the event is built and the lock asked for.
BroadcastCall(b) ==
    /\ broadcasts[b].pc = "idle"
    /\ journal.issued < MaxEvents
    /\ broadcasts' = [broadcasts EXCEPT ![b] =
                         [pc |-> "acquiring", event |-> journal.issued + 1,
                          todo |-> << >>, failed |-> {}]]
    /\ journal' = [journal EXCEPT !.issued = @ + 1]
    /\ lock' = Acquire(lock, b)
    /\ UNCHANGED << subscribers, streams >>
    /\ UNCHANGED planvars

\* The lock is held: the for loop starts on self._subscribers.items().
BroadcastEnter(b) ==
    /\ broadcasts[b].pc = "acquiring"
    /\ Holds(lock, b)
    /\ broadcasts' = [broadcasts EXCEPT ![b].pc = "putting",
                         ![b].todo = [i \in 1..Len(subscribers) |->
                                         subscribers[i].client_id]]
    /\ journal' = [journal EXCEPT !.expected =
                      [k \in ClientIds |->
                          IF k \in Registered(subscribers)
                          THEN Append(@[k], broadcasts[b].event) ELSE @[k]]]
    /\ UNCHANGED << subscribers, lock, streams >>
    /\ UNCHANGED planvars

\* One turn of the for loop: await queue.put(event_json).
BroadcastPut(b) ==
    /\ broadcasts[b].pc = "putting"
    /\ Holds(lock, b)
    /\ broadcasts[b].todo # << >>
    /\ subscribers' = put(subscribers, Head(broadcasts[b].todo), broadcasts[b].event)
    /\ journal' = [journal EXCEPT !.puts[Head(broadcasts[b].todo)] =
                                      Append(@, broadcasts[b].event)]
    /\ broadcasts' = [broadcasts EXCEPT ![b].todo = Tail(@)]
    /\ UNCHANGED << lock, streams >>
    /\ UNCHANGED planvars

\* The for loop is over: the lock is released and broadcast returns.
BroadcastExit(b) ==
    /\ broadcasts[b].pc = "putting"
    /\ Holds(lock, b)
    /\ broadcasts[b].todo = << >>
    /\ lock' = Release(lock)
    /\ broadcasts' = [broadcasts EXCEPT ![b] = IdleBroadcast]
    /\ UNCHANGED << subscribers, streams, journal >>
    /\ UNCHANGED planvars

\* broadcast is called with data that SyncEvent(...) or model_dump_json()
\* rejects: the exception leaves broadcast, no lock was asked for.
BroadcastBuildFails(b) ==
    /\ broadcasts[b].pc = "idle"
    /\ journal.issued < MaxEvents
    /\ broadcasts' = [broadcasts EXCEPT ![b].pc = "raised"]
    /\ journal' = [journal EXCEPT !.issued = @ + 1]
    /\ UNCHANGED << subscribers, lock, streams >>
    /\ UNCHANGED planvars

\* One turn of the for loop in which queue.put raises: the except branch
\* prints and the loop goes on.
BroadcastPutFails(b) ==
    /\ broadcasts[b].pc = "putting"
    /\ Holds(lock, b)
    /\ broadcasts[b].todo # << >>
    /\ broadcasts' = [broadcasts EXCEPT ![b].todo = Tail(@),
                                        ![b].failed = @ \cup { Head(broadcasts[b].todo) }]
    /\ UNCHANGED << subscribers, lock, streams, journal >>
    /\ UNCHANGED planvars

InitSync == InitWith({ Config({ "c1" }, {}, NoInt) })

NextSync ==
    \/ \E k \in ClientIds : StreamOpen(k)
    \/ \E k \in ClientIds : StreamSubscribed(k)
    \/ \E k \in ClientIds : StreamLoop(k)
    \/ \E k \in ClientIds : StreamGet(k)
    \/ \E k \in ClientIds : StreamTimeout(k)
    \/ \E k \in ClientIds : StreamClosed(k)
    \/ \E k \in ClientIds : StreamUnsubscribe(k)
    \/ \E k \in ClientIds : ClientDisconnect(k)
    \/ \E b \in BroadcasterIds : BroadcastCall(b)
    \/ \E b \in BroadcasterIds : BroadcastEnter(b)
    \/ \E b \in BroadcasterIds : BroadcastPut(b)
    \/ \E b \in BroadcasterIds : BroadcastExit(b)

SpecSync == InitSync /\ [][NextSync]_vars

\* The event bus with failures inside broadcast.
NextSyncFaults ==
    \/ NextSync
    \/ \E b \in BroadcasterIds : BroadcastBuildFails(b)
    \/ \E b \in BroadcasterIds : BroadcastPutFails(b)

SpecSyncFaults == InitSync /\ [][NextSyncFaults]_vars

\* The steps the event loop takes for a stream once they are possible, and
\* those it takes for a broadcast.
StreamProgress(k) ==
    \/ StreamSubscribed(k)
    \/ StreamLoop(k)
    \/ StreamGet(k)
    \/ StreamTimeout(k)
    \/ StreamUnsubscribe(k)

BroadcastProgress(b) ==
    \/ BroadcastEnter(b)
    \/ BroadcastPut(b)
    \/ BroadcastExit(b)

\* The event loop runs every task that is ready and fires every timeout.
SpecSyncFair ==
    /\ SpecSync
    /\ \A k \in ClientIds : WF_vars(StreamProgress(k))
    /\ \A b \in BroadcasterIds : WF_vars(BroadcastProgress(b))

\* POST /works/{w}/auto-assign with the counts of its response.
auto_assign_work_response ==
    \E wid \in WorkIds, strategy \in Strategies,
       erows \in EngineerRowOrders, crows \in ChunkRowOrders :
        LET Respond(res) ==
                /\ works' = get_db(Store, FALSE, [works |-> res.works]).works
                /\ chunks' = get_db(Store, FALSE, [chunks |-> res.chunks]).chunks
                /\ last' = [op |-> "assign_all_chunks", sid |-> 0,
                            result |-> Outcome(res.success, FALSE),
                            work_id |-> wid, ok |-> res.success,
                            assigned_count |-> res.assigned_count,
                            errors |-> res.errors]
        IN /\ Respond(assign_all_chunks(chunks, works, links, erows, crows, wid,
                                        strategy))
           /\ UNCHANGED << links, sessions, now, txs >>
           /\ UNCHANGED syncvars
           /\ UNCHANGED runs

\* The initial stores, a chain of dependencies through the support chunk,
\* and three chunks of the general work of which the first two are linked.
InitAssignAll ==
    InitWith(Configs \cup
             { Config({ "c1", "c2", "c3" }, { Link("c1", "c2", "dependency"),
                                              Link("c2", "c3", "dependency") }, 14),
               Config({ "c1", "c2", "c4" }, { Link("c1", "c2", "dependency"),
                                              Link("c2", "c1", "sync") }, NoInt) })

NextAssignAll ==
    \/ auto_assign_work_response
    \/ auto_assign_chunk
    \/ unassign_chunk_route
    \/ ConfirmPlanned

SpecAssignAll == InitAssignAll /\ [][NextAssignAll]_vars

\* ------------------------------------------------------------------------
\* Sessions over four chunks of two hours and two engineers of one region
\* ------------------------------------------------------------------------
\* POST /planning/sessions on a store whose Engineer and WorkChunk rows come
\* back in one of the given orders.
BulkCreateSessionOn(engineer_rows, chunk_rows) ==
    /\ Len(sessions) < MaxSessions
    /\ \E strategy \in Strategies, erows \in engineer_rows, crows \in chunk_rows :
        RequestBroadcasting("create_planning_session", Len(sessions) + 1, "ok", FALSE,
            [works |-> works, chunks |-> chunks,
             sessions |-> Append(sessions,
                 create_planning_session(chunks, works, erows, crows, strategy))],
            << "planning_session_created" >>)
    /\ UNCHANGED links

BulkCreateSession == BulkCreateSessionOn(EngineerRowOrders, ChunkRowOrders)

PackedEngineerRowOrders == { << "e4", "e5" >>, << "e5", "e4" >> }
PackedChunkRowOrders == { << "c5", "c6", "c7", "c8" >>, << "c8", "c7", "c6", "c5" >> }

BulkCreateSessionPacked ==
    BulkCreateSessionOn(PackedEngineerRowOrders, PackedChunkRowOrders)

\* PlanningService.create_session on the same stores.
CreateSessionPacked ==
    /\ Len(sessions) < MaxSessions
    /\ \E strategy \in Strategies, erows \in PackedEngineerRowOrders,
          crows \in PackedChunkRowOrders :
        Request("create_session", Len(sessions) + 1, "ok", FALSE,
                [works |-> works, chunks |-> chunks,
                 sessions |-> Append(sessions,
                     create_session(chunks, works, links, erows, crows, strategy))])
    /\ UNCHANGED links

InitPacked ==
    /\ works = PackedWorks
    /\ \E one_work \in BOOLEAN : chunks = PackedChunks(one_work)
    /\ links = {}
    /\ sessions = << >>
    /\ last = [op |-> "init", sid |-> 0, result |-> "ok"]
    /\ now = 0
    /\ txs = [t \in TxIds |-> IdleTx]
    /\ runs = [r \in RunIds |-> IdleRun]
    /\ subscribers = << >>
    /\ lock = FreeLock
    /\ streams = [k \in ClientIds |-> IdleStream]
    /\ broadcasts = [b \in BroadcasterIds |-> IdleBroadcast]
    /\ journal = [issued |-> 0,
                  puts |-> [k \in ClientIds |-> << >>],
                  expected |-> [k \in ClientIds |-> << >>]]

NextPacked ==
    \/ BulkCreateSessionPacked
    \/ CreateSessionPacked
    \/ BulkApplySession
    \/ BulkCancelSession

SpecPacked == InitPacked /\ [][NextPacked]_vars

\* ------------------------------------------------------------------------
\* Sessions over a general and a support work of every pair of priorities
\* ------------------------------------------------------------------------
Priorities == { "critical", "high", "medium", "low" }

\* The general work w1 and the support work w2 with the given priorities.
RankedWorks(general_priority, support_priority) == [w \in WorkIds |->
    [InitWorks(NoInt)[w] EXCEPT
        !.priority = IF w = "w1" THEN general_priority ELSE support_priority]]

InitRanked ==
    /\ \E general_priority, support_priority \in Priorities :
           works = RankedWorks(general_priority, support_priority)
    /\ chunks = [c \in { "c1", "c2", "c3" } |-> InitChunks[c]]
    /\ links = {}
    /\ sessions = << >>
    /\ last = [op |-> "init", sid |-> 0, result |-> "ok"]
    /\ now = 0
    /\ txs = [t \in TxIds |-> IdleTx]
    /\ runs = [r \in RunIds |-> IdleRun]
    /\ subscribers = << >>
    /\ lock = FreeLock
    /\ streams = [k \in ClientIds |-> IdleStream]
    /\ broadcasts = [b \in BroadcasterIds |-> IdleBroadcast]
    /\ journal = [issued |-> 0,
                  puts |-> [k \in ClientIds |-> << >>],
                  expected |-> [k \in ClientIds |-> << >>]]

NextRanked ==
    \/ BulkCreateSession
    \/ CreateSession
    \/ BulkApplySession
    \/ BulkCancelSession

SpecRanked == InitRanked /\ [][NextRanked]_vars

\* ------------------------------------------------------------------------
\* Stores with a chunk that has no tasks
\* ------------------------------------------------------------------------
InitTaskless ==
    InitWith({ Config({ "c0" }, {}, NoInt),
               Config({ "c0", "c1" }, {}, NoInt),
               Config({ "c0", "c3" }, {}, 14) })

NextTaskless ==
    \/ suggest_slot_for_chunk
    \/ auto_assign_chunk
    \/ unassign_chunk_route
    \/ auto_assign_work
    \/ CreateSession
    \/ BulkCreateSession

SpecTaskless == InitTaskless /\ [][NextTaskless]_vars

\* ------------------------------------------------------------------------
\* create_session calls interleaved at their awaits
\* ------------------------------------------------------------------------
\* One list of virtual assignments read by every context.
virtual_assignments_of_all(rs, r) ==
    rs["p1"]._virtual_assignments \o rs["p2"]._virtual_assignments

\* self._virtual_assignments of the context of run r.
virtual_assignments(rs, r) == rs[r]._virtual_assignments

\* create_session up to the loop: load_global_context, _get_unassigned_chunks
\* and sort_chunks.
RunBegin(r) ==
    /\ runs[r].pc = "idle"
    /\ \E strategy \in Strategies, erows \in EngineerRowOrders,
          crows \in ChunkRowOrders :
          runs' = [runs EXCEPT ![r] =
                      [IdleRun EXCEPT !.pc = "loop", !.strategy = strategy,
                                      !.erows = erows, !.crows = crows, !.i = 1,
                                      !.queue = sort_chunks(strategy, chunks, works,
                                          get_unassigned_chunks(chunks, works, crows))]]
    /\ UNCHANGED << works, chunks, links, sessions, last, now, txs >>
    /\ UNCHANGED syncvars

\* One iteration of the loop of create_session, between two awaits.
RunIterate(r) ==
    LET run == runs[r]
        Step(cid, work_id, slot) ==
            IF slot # NoSlot
            THEN [run EXCEPT !.i = @ + 1,
                             !.assignments = Append(@, SlotToDict(slot, cid, work_id)),
                             !._virtual_assignments =
                                 Append(@, SlotToDict(slot, cid, work_id))]
            ELSE [run EXCEPT !.i = @ + 1, !.failed = Append(@, cid)]
    IN /\ run.pc = "loop"
       /\ run.i <= Len(run.queue)
       /\ runs' = [runs EXCEPT ![r] =
              Step(run.queue[run.i], chunks[run.queue[run.i]].work_id,
                   find_slot_for_single_chunk(chunks, works, links,
                       virtual_assignments(runs, r), run.erows, run.queue[run.i],
                       run.strategy,
                       get_preferred_engineer(chunks, run.crows,
                           chunks[run.queue[run.i]].work_id, run.assignments)))]
       /\ UNCHANGED << works, chunks, links, sessions, last, now, txs >>
       /\ UNCHANGED syncvars

\* The end of create_session: the session is added and flushed, and get_db
\* commits.
RunStore(r) ==
    LET run == runs[r]
    IN /\ run.pc = "loop"
       /\ run.i > Len(run.queue)
       /\ sessions' = Append(sessions,
              [strategy |-> run.strategy, status |-> "draft",
               expires_at |-> expires_at_default,
               assignments |-> run.assignments, failed |-> run.failed,
               stats |-> [total |-> Len(run.queue),
                          assigned |-> Len(run.assignments),
                          failed |-> Len(run.failed)]])
       /\ runs' = [runs EXCEPT ![r].pc = "done"]
       /\ last' = [op |-> "create_session", sid |-> Len(sessions) + 1, result |-> "ok"]
       /\ UNCHANGED << works, chunks, links, now, txs >>
       /\ UNCHANGED syncvars

NextOverlay ==
    \/ \E r \in RunIds : RunBegin(r)
    \/ \E r \in RunIds : RunIterate(r)
    \/ \E r \in RunIds : RunStore(r)

SpecOverlay == Init /\ [][NextOverlay]_vars

\* PATCH bodies that write a whole assignment triple, as the calendar sends
\* them when a chunk is dropped on an engineer's day.
TripleUpdates ==
    { [status |-> "planned", assigned_engineer_id |-> e, assigned_date |-> d,
       assigned_start_time |-> h] : e \in { "e1", "e2" }, d \in { 1 }, h \in { 9, 11, 13 } }

\* PATCH /works/{w}/chunks/{c} with a triple; last keeps the chunk and the
\* body of the request.
PatchChunkTriple ==
    \E cid \in ChunkIds, data \in TripleUpdates :
        LET res == update_chunk(chunks, cid, data)
            st == get_db(Store, res.status_code # 200,
                         [works |-> works, chunks |-> res.chunks, sessions |-> sessions])
        IN /\ cid \in DOMAIN chunks => chunks[cid].version < MaxVersion
           /\ works' = st.works
           /\ chunks' = st.chunks
           /\ sessions' = st.sessions
           /\ last' = [op |-> "update_chunk", sid |-> 0,
                       result |-> Outcome(res.status_code = 200, FALSE),
                       status_code |-> res.status_code, cid |-> cid, data |-> data]
           /\ now' = now
           /\ txs' = txs
           /\ UNCHANGED syncvars
           /\ UNCHANGED runs
           /\ UNCHANGED links

\* Chunks assigned by the planner and then moved by PATCH.
InitTriple == InitWith({ Config({ "c1", "c2" }, {}, NoInt),
                         Config({ "c1", "c3" }, {}, 14) })

NextTriple ==
    \/ auto_assign_chunk
    \/ unassign_chunk_route
    \/ PatchChunkTriple

SpecTriple == InitTriple /\ [][NextTriple]_vars

\* One call of PlanningEngine.find_available_slots as
\* _find_slot_for_single_chunk makes it on behalf of suggest_slot: for a
\* candidate engineer of the chunk's region, over the chunk's date window,
\* with an empty overlay.  last keeps the arguments and the list returned.
FindAvailableSlots ==
    \E cid \in ChunkIds, erows \in EngineerRowOrders :
        /\ cid \in DOMAIN chunks
        /\ chunks[cid].work_id \in DOMAIN works
        /\ \E k \in DOMAIN get_candidate_engineers(erows, effective_dc(chunks, works, cid), Null) :
              LET engineer_id == get_candidate_engineers(erows,
                                     effective_dc(chunks, works, cid), Null)[k]
                  window == get_date_window(chunks, works, links, cid)
              IN last' = [op |-> "find_available_slots", sid |-> 0, result |-> "ok",
                          cid |-> cid, engineer_id |-> engineer_id,
                          slots |-> find_available_slots(chunks, works, << >>,
                                        engineer_id, cid, works[chunks[cid].work_id],
                                        window.start, window.end)]
        /\ UNCHANGED << works, chunks, links, sessions, now, txs >>
        /\ UNCHANGED syncvars
        /\ UNCHANGED runs

\* Calendars filled by the planner and by PATCH, for a support work with
\* and without a fixed hour.
TargetTimes == { NoInt, 9, 10, 11, 14 }

InitEngine ==
    InitWith({ Config({ "c1", "c2" }, {}, NoInt) }
             \cup { Config({ "c1", "c3" }, {}, t) : t \in TargetTimes }
             \cup { Config({ "c2", "c3" }, {}, t) : t \in TargetTimes })

NextEngine ==
    \/ FindAvailableSlots
    \/ auto_assign_chunk
    \/ unassign_chunk_route
    \/ PatchChunkTriple

SpecEngine == InitEngine /\ [][NextEngine]_vars

\* The same calls on calendars written by the planner alone.
NextEnginePlanned ==
    \/ FindAvailableSlots
    \/ auto_assign_chunk
    \/ unassign_chunk_route
    \/ auto_assign_work

SpecEnginePlanned == InitEngine /\ [][NextEnginePlanned]_vars

\* A store with one chunk of four hours in the region of a single engineer
\* who works 09-18 on every day, next to the stores of two chunks.
InitBalanced ==
    \/ InitWith({ Config({ "c1", "c2" }, {}, NoInt),
                  Config({ "c1", "c3" }, {}, 14),
                  Config({ "c1", "c4" }, {}, NoInt) })
    \/ /\ works = InitWorks(NoInt)
       /\ chunks = [c \in { "c1" } |-> [InitChunks[c] EXCEPT !.data_center_id = "dcC"]]
       /\ links = {}
       /\ sessions = << >>
       /\ last = [op |-> "init", sid |-> 0, result |-> "ok"]
       /\ now = 0
       /\ txs = [t \in TxIds |-> IdleTx]
       /\ runs = [r \in RunIds |-> IdleRun]
       /\ subscribers = << >>
       /\ lock = FreeLock
       /\ streams = [k \in ClientIds |-> IdleStream]
       /\ broadcasts = [b \in BroadcasterIds |-> IdleBroadcast]
       /\ journal = [issued |-> 0,
                     puts |-> [k \in ClientIds |-> << >>],
                     expected |-> [k \in ClientIds |-> << >>]]

NextBalanced ==
    \/ suggest_slot_for_chunk
    \/ auto_assign_chunk
    \/ unassign_chunk_route
    \/ auto_assign_work

SpecBalanced == InitBalanced /\ [][NextBalanced]_vars

\* The calendar as the loop of assign_all_chunks presents it to the search
\* of each chunk of sorted_queue from position i on: the chunk table with
\* the rows written so far and the virtual assignments added so far.
RECURSIVE AssignAllContexts(_, _, _, _, _, _, _, _, _, _)
AssignAllContexts(ch, wk, lnk, erows, crows, work_id, strategy, queue, i, assignments) ==
    IF i > Len(queue) THEN << >>
    ELSE LET slot == find_slot_for_single_chunk(ch, wk, lnk, assignments, erows, queue[i],
                         strategy, get_preferred_engineer(ch, crows, work_id, assignments))
         IN << [cid |-> queue[i], chunks |-> ch, virtual_assignments |-> assignments] >>
            \o IF slot # NoSlot
               THEN AssignAllContexts(
                        [ch EXCEPT ![queue[i]] = WriteSlot(@, slot.engineer_id,
                                                           slot.date, slot.start_time)],
                        wk, lnk, erows, crows, work_id, strategy, queue, i + 1,
                        Append(assignments, SlotToDict(slot, queue[i], work_id)))
               ELSE AssignAllContexts(ch, wk, lnk, erows, crows, work_id, strategy,
                                      queue, i + 1, assignments)

\* POST /works/{w}/auto-assign; last keeps the calendars its chunks were
\* ranked on.
auto_assign_work_contexts ==
    \E wid \in WorkIds, strategy \in Strategies,
       erows \in EngineerRowOrders, crows \in ChunkRowOrders :
        LET res == assign_all_chunks(chunks, works, links, erows, crows, wid, strategy)
            to_assign == SelectSeq(crows, LAMBDA c : /\ c \in DOMAIN chunks
                                                     /\ chunks[c].work_id = wid
                                                     /\ chunks[c].status = "created")
        IN /\ works' = get_db(Store, FALSE, [works |-> res.works]).works
           /\ chunks' = get_db(Store, FALSE, [chunks |-> res.chunks]).chunks
           /\ last' = [op |-> "assign_all_chunks", sid |-> 0,
                       result |-> Outcome(res.success, FALSE),
                       contexts |-> AssignAllContexts(chunks, works, links, erows, crows,
                                        wid, strategy,
                                        sort_chunks(strategy, chunks, works, to_assign),
                                        1, << >>)]
           /\ UNCHANGED << links, sessions, now, txs >>
           /\ UNCHANGED syncvars
           /\ UNCHANGED runs

NextLoads ==
    \/ auto_assign_work_contexts
    \/ auto_assign_chunk
    \/ unassign_chunk_route
    \/ ConfirmPlanned

SpecLoads == InitAssignAll /\ [][NextLoads]_vars

\* ------------------------------------------------------------------------
\* POST /planning/sessions/{id}/apply and /cancel served side by side, each
\* in its own get_db transaction (READ COMMITTED, no FOR UPDATE, no version
\* column on PlanningSession)
\* ------------------------------------------------------------------------
SessionOps == { "apply_session", "cancel_session" }

\* apply_session / cancel_session up to the SELECT of the PlanningSession
\* row: the row is read as committed.  A missing row, and for apply a row
\* that is not a draft, is answered 400.
SessionSelect ==
    \E t \in TxIds, op \in SessionOps, sid \in 1..MaxSessions :
        LET refused == \/ sid \notin DOMAIN sessions
                       \/ op = "apply_session" /\ sessions[sid].status # "draft"
        IN /\ txs[t].pc = "idle"
           /\ \A u \in TxIds \ {t} : txs[u].pc # "idle" => txs[u].data.op # op
           /\ txs' = [txs EXCEPT ![t] =
                  [IdleTx EXCEPT !.pc = IF refused THEN "done" ELSE "selected",
                                 !.data = [op |-> op, sid |-> sid],
                                 !.row = IF refused THEN << >> ELSE sessions[sid],
                                 !.status_code = IF refused THEN 400 ELSE 0]]
           /\ last' = [op |-> op, sid |-> sid,
                       result |-> IF refused THEN "raised" ELSE "selected"]
           /\ UNCHANGED << works, chunks, links, sessions, now >>
           /\ UNCHANGED syncvars
           /\ UNCHANGED runs

\* The rest of the service method up to db.flush(): the handler works on
\* the session row it loaded and on the chunks as committed now, and sends
\* its UPDATEs, which wait while another transaction holds the session row.
SessionFlush ==
    \E t \in TxIds :
        LET sid == txs[t].data.sid
            loaded == [sessions EXCEPT ![sid] = txs[t].row]
            res == IF txs[t].data.op = "apply_session"
                   THEN bulk_apply_session(chunks, works, loaded, sid)
                   ELSE bulk_cancel_session(chunks, works, loaded, sid)
        IN /\ txs[t].pc = "selected"
           /\ \A u \in TxIds \ {t} : txs[u].pc # "flushed"
           /\ txs' = [txs EXCEPT
                  ![t].pc = "flushed",
                  ![t].writes =
                      [chunks |-> [c \in { x \in DOMAIN chunks : res.chunks[x] # chunks[x] }
                                      |-> res.chunks[c]],
                       works |-> [w \in { x \in DOMAIN works : res.works[x] # works[x] }
                                     |-> res.works[w]],
                       status |-> res.sessions[sid].status]]
           /\ last' = [op |-> txs[t].data.op, sid |-> sid, result |-> "flushed"]
           /\ UNCHANGED << works, chunks, links, sessions, now >>
           /\ UNCHANGED syncvars
           /\ UNCHANGED runs

\* get_db after the handler returned: session.commit().
SessionCommit ==
    \E t \in TxIds :
        /\ txs[t].pc = "flushed"
        /\ chunks' = [c \in DOMAIN chunks |->
                         IF c \in DOMAIN txs[t].writes.chunks
                         THEN txs[t].writes.chunks[c] ELSE chunks[c]]
        /\ works' = [w \in DOMAIN works |->
                        IF w \in DOMAIN txs[t].writes.works
                        THEN txs[t].writes.works[w] ELSE works[w]]
        /\ sessions' = [sessions EXCEPT ![txs[t].data.sid].status = txs[t].writes.status]
        /\ txs' = [txs EXCEPT ![t].pc = "done", ![t].status_code = 200]
        /\ last' = [op |-> txs[t].data.op, sid |-> txs[t].data.sid, result |-> "ok"]
        /\ UNCHANGED << links, now >>
        /\ UNCHANGED syncvars
        /\ UNCHANGED runs

NextSessionRace ==
    \/ BulkCreateSession
    \/ SessionSelect
    \/ SessionFlush
    \/ SessionCommit

SpecSessionRace == Init /\ [][NextSessionRace]_vars

\* ------------------------------------------------------------------------
\* A broadcasting handler and the commit of its get_db transaction: the
\* handler returns after sync_service.broadcast, session.commit() runs when
\* the dependency is resumed after the handler
\* ------------------------------------------------------------------------
\* sync_service.broadcast with nobody else at the lock: the event is put on
\* the queue of every subscriber.
broadcast(subs, event) ==
    [i \in 1..Len(subs) |-> [subs[i] EXCEPT !.queue = Append(@, event)]]

\* POST /works/{w}/chunks/{c}/auto-assign up to the return of the handler:
\* HTTP 400 without an event when no slot was found, otherwise the chunk
\* is written in the transaction and chunk_planned is broadcast.
AutoAssignHandler ==
    \E t \in TxIds, cid \in ChunkIds, erows \in EngineerRowOrders :
        LET res == assign_chunk(chunks, works, links, erows, cid)
            event == [id |-> journal.issued + 1, event_type |-> "chunk_planned",
                      entity_id |-> cid, data |-> res.chunks[cid]]
        IN /\ txs[t].pc = "idle"
           /\ \A u \in TxIds : txs[u].pc \in { "idle", "done" }
           /\ cid \in DOMAIN chunks
           /\ lock = FreeLock
           /\ journal.issued < MaxEvents
           /\ IF ~res.success
              THEN /\ txs' = [txs EXCEPT ![t] = [IdleTx EXCEPT !.pc = "done", !.cid = cid,
                                                              !.status_code = 400]]
                   /\ UNCHANGED << subscribers, journal >>
              ELSE /\ txs' = [txs EXCEPT ![t] =
                          [IdleTx EXCEPT !.pc = "returned", !.cid = cid, !.data = event,
                                         !.writes = [chunks |-> res.chunks,
                                                     works |-> res.works]]]
                   /\ subscribers' = broadcast(subscribers, event)
                   /\ journal' = [issued |-> journal.issued + 1,
                                  puts |-> [k \in ClientIds |->
                                      IF k \in Registered(subscribers)
                                      THEN Append(journal.puts[k], event.id)
                                      ELSE journal.puts[k]],
                                  expected |-> [k \in ClientIds |->
                                      IF k \in Registered(subscribers)
                                      THEN Append(journal.expected[k], event.id)
                                      ELSE journal.expected[k]]]
           /\ last' = [op |-> "assign_chunk", sid |-> 0,
                       result |-> IF res.success THEN "returned" ELSE "raised"]
           /\ UNCHANGED << works, chunks, links, sessions, now >>
           /\ UNCHANGED << lock, streams, broadcasts, runs >>

\* get_db resumed after the handler: session.commit() succeeds.
HandlerCommit ==
    \E t \in TxIds :
        /\ txs[t].pc = "returned"
        /\ chunks' = txs[t].writes.chunks
        /\ works' = txs[t].writes.works
        /\ txs' = [txs EXCEPT ![t].pc = "done", ![t].status_code = 200]
        /\ last' = [op |-> "assign_chunk", sid |-> 0, result |-> "ok"]
        /\ UNCHANGED << links, sessions, now >>
        /\ UNCHANGED syncvars
        /\ UNCHANGED runs

\* get_db resumed after the handler: session.commit() raises (the
\* connection is lost, the database refuses the write); the except branch
\* rolls back and re-raises.
HandlerCommitFails ==
    \E t \in TxIds :
        /\ txs[t].pc = "returned"
        /\ txs' = [txs EXCEPT ![t].pc = "done", ![t].status_code = 500]
        /\ last' = [op |-> "assign_chunk", sid |-> 0, result |-> "raised"]
        /\ UNCHANGED << works, chunks, links, sessions, now >>
        /\ UNCHANGED syncvars
        /\ UNCHANGED runs

InitEvents == InitWith({ Config({ "c1" }, {}, NoInt), Config({ "c1", "c3" }, {}, 14) })

NextEvents ==
    \/ AutoAssignHandler
    \/ HandlerCommit
    \/ HandlerCommitFails
    \/ \E k \in ClientIds : StreamOpen(k)
    \/ \E k \in ClientIds : StreamSubscribed(k)
    \/ \E k \in ClientIds : StreamLoop(k)
    \/ \E k \in ClientIds : StreamGet(k)

SpecEvents == InitEvents /\ [][NextEvents]_vars

\* The planning operations of both services together with the bulk routes
\* confirm-planned and cancel-all-chunks.
NextOperations ==
    \/ auto_assign_chunk
    \/ unassign_chunk_route
    \/ auto_assign_work
    \/ CreateSession
    \/ ApplySession
    \/ CancelSession
    \/ BulkCreateSession
    \/ BulkApplySession
    \/ BulkCancelSession
    \/ ConfirmPlanned
    \/ CancelAllChunks

SpecOperations == InitTriple /\ [][NextOperations]_vars

\* ------------------------------------------------------------------------
\* Properties
\* ------------------------------------------------------------------------
\* The persisted chunk c holds hours of an engineer's day.
Occupies(c) ==
    /\ chunks[c].status \in OccupiedStatuses
    /\ chunks[c].assigned_engineer_id # Null
    /\ chunks[c].assigned_date # NoInt
    /\ chunks[c].assigned_start_time # NoInt

SameEngineerDay(c, d) ==
    /\ c # d
    /\ Occupies(c) /\ Occupies(d)
    /\ chunks[c].assigned_engineer_id = chunks[d].assigned_engineer_id
    /\ chunks[c].assigned_date = chunks[d].assigned_date

\* No third chunk of the same engineer and day starts strictly between the
\* starts of c and d.
Consecutive(c, d) ==
    /\ SameEngineerDay(c, d)
    /\ chunks[c].assigned_start_time <= chunks[d].assigned_start_time
    /\ ~ \E e \in DOMAIN chunks :
          /\ SameEngineerDay(c, e) /\ e # d
          /\ chunks[c].assigned_start_time < chunks[e].assigned_start_time
          /\ chunks[e].assigned_start_time < chunks[d].assigned_start_time

\* C1: for every engineer and date, every consecutive pair of persisted
\* assignments in status planned, assigned or in_progress, sorted by start
\* hour, satisfies a.start + a.duration + travel_hours(a.dc, b.dc) <= b.start,
\* whatever work windows of the day the two lie in.
NoOverlapWithTravel ==
    \A c, d \in DOMAIN chunks :
        Consecutive(c, d)
        => chunks[c].assigned_start_time + duration_hours(c)
             + get_travel_time(effective_dc(chunks, works, c),
                               effective_dc(chunks, works, d))
           <= chunks[d].assigned_start_time

\* The store holds for chunk c exactly the proposal a, as a planned chunk.
Matches(a, c) ==
    /\ chunks[c].status = "planned"
    /\ chunks[c].assigned_engineer_id = a.engineer_id
    /\ chunks[c].assigned_date = a.date
    /\ chunks[c].assigned_start_time = a.start_time

\* C2: cancel_session on an applied session leaves every listed chunk whose
\* current triple no longer matches the session's recorded assignment
\* exactly as the independent mutation left it.
CancelKeepsMutatedChunks ==
    [][\A sid \in DOMAIN sessions :
          (/\ last'.op = "cancel_session"
           /\ last'.sid = sid
           /\ sessions[sid].status = "applied")
          => \A i \in 1..Len(sessions[sid].assignments) :
                (/\ sessions[sid].assignments[i].chunk_id \in DOMAIN chunks
                 /\ ~Matches(sessions[sid].assignments[i],
                             sessions[sid].assignments[i].chunk_id))
                => /\ sessions[sid].assignments[i].chunk_id \in DOMAIN chunks'
                   /\ chunks'[sessions[sid].assignments[i].chunk_id]
                        = chunks[sessions[sid].assignments[i].chunk_id]]_vars

\* C3: in every reachable state every chunk has assigned_engineer_id,
\* assigned_date and assigned_start_time either all null or all set.
TripleAllOrNone ==
    \A c \in DOMAIN chunks :
        \/ /\ chunks[c].assigned_engineer_id = Null
           /\ chunks[c].assigned_date = NoInt
           /\ chunks[c].assigned_start_time = NoInt
        \/ /\ chunks[c].assigned_engineer_id # Null
           /\ chunks[c].assigned_date # NoInt
           /\ chunks[c].assigned_start_time # NoInt

\* Both chunks of a link exist and carry an assignment.
BothAssigned(l) ==
    /\ l.chunk_id \in DOMAIN chunks
    /\ l.linked_chunk_id \in DOMAIN chunks
    /\ chunks[l.chunk_id].assigned_date # NoInt
    /\ chunks[l.linked_chunk_id].assigned_date # NoInt

\* C4: for every dependency link whose two chunks both carry an assignment,
\* the dependent chunk's assigned date is strictly later than the assigned
\* date of the chunk it depends on.
DependencyOrder ==
    \A l \in links :
        (l.link_type = "dependency" /\ BothAssigned(l))
        => chunks[l.chunk_id].assigned_date > chunks[l.linked_chunk_id].assigned_date

\* C5: for every sync link whose two chunks are both assigned, their
\* assigned dates are equal.
SyncColocation ==
    \A l \in links :
        (l.link_type = "sync" /\ BothAssigned(l))
        => chunks[l.chunk_id].assigned_date = chunks[l.linked_chunk_id].assigned_date

\* Region fit as a state invariant: every chunk that carries an engineer and
\* has an effective data center of a known region has an engineer of that
\* region.  It holds as long as no request changes a data center.
RegionFit ==
    \A c \in DOMAIN chunks :
        (/\ chunks[c].assigned_engineer_id # Null
         /\ effective_dc(chunks, works, c) \in DOMAIN dc_regions)
        => EngineerRegion[chunks[c].assigned_engineer_id]
             = dc_regions[effective_dc(chunks, works, c)]

\* The request just served was a planning operation that writes assignments.
PlanningWrite ==
    last'.op \in { "assign_chunk", "assign_all_chunks", "apply_session" }

\* C6: every assignment that assign_chunk, assign_all_chunks or
\* apply_session persists gives the chunk an engineer whose region equals
\* the region of the chunk's effective data center (the chunk's own, else
\* the work's), also when the engineer is the preferred one of the work.
RegionFitOnWrite ==
    [][\A c \in DOMAIN chunks :
          (/\ PlanningWrite
           /\ c \in DOMAIN chunks'
           /\ chunks'[c].assigned_engineer_id # Null
           /\ chunks'[c].assigned_engineer_id # chunks[c].assigned_engineer_id
           /\ effective_dc(chunks', works', c) \in DOMAIN dc_regions)
          => EngineerRegion[chunks'[c].assigned_engineer_id]
               = dc_regions[effective_dc(chunks', works', c)]]_vars

\* Two proposals for different chunks that claim overlapping hours of one
\* engineer's day.
Overlapping(a1, a2) ==
    /\ a1.chunk_id # a2.chunk_id
    /\ a1.engineer_id = a2.engineer_id
    /\ a1.date = a2.date
    /\ a1.start_time < a2.start_time + a2.duration_hours
    /\ a2.start_time < a1.start_time + a1.duration_hours

\* The proposal a is what the store holds for its chunk.
Landed(a) ==
    /\ a.chunk_id \in DOMAIN chunks
    /\ chunks[a.chunk_id].status \in OccupiedStatuses
    /\ chunks[a.chunk_id].assigned_engineer_id = a.engineer_id
    /\ chunks[a.chunk_id].assigned_date = a.date
    /\ chunks[a.chunk_id].assigned_start_time = a.start_time

\* Session sid2 is a draft proposing, for a chunk still created, hours that
\* overlap an assignment landed from the applied session sid1.
SecondOverlapsFirst(sid1, sid2) ==
    /\ sid1 # sid2
    /\ sessions[sid1].status = "applied"
    /\ sessions[sid2].status = "draft"
    /\ \E i \in 1..Len(sessions[sid1].assignments),
          j \in 1..Len(sessions[sid2].assignments) :
        /\ Overlapping(sessions[sid1].assignments[i], sessions[sid2].assignments[j])
        /\ Landed(sessions[sid1].assignments[i])
        /\ sessions[sid2].assignments[j].chunk_id \in DOMAIN chunks
        /\ chunks[sessions[sid2].assignments[j].chunk_id].status = "created"

\* C7: when a draft session proposes hours overlapping an assignment landed
\* from another, already applied session (for a different chunk, same
\* engineer and date), applying it is aborted as a whole: none of its
\* assignments land.
SecondApplyAborted ==
    [][\A sid1, sid2 \in DOMAIN sessions :
          (/\ SecondOverlapsFirst(sid1, sid2)
           /\ last'.op = "apply_session"
           /\ last'.sid = sid2)
          => chunks' = chunks]_vars

\* The store holds for a's chunk the proposal a as a planned assignment in
\* the next state.
LandsNext(a) ==
    /\ a.chunk_id \in DOMAIN chunks'
    /\ chunks'[a.chunk_id].status = "planned"
    /\ chunks'[a.chunk_id].assigned_engineer_id = a.engineer_id
    /\ chunks'[a.chunk_id].assigned_date = a.date
    /\ chunks'[a.chunk_id].assigned_start_time = a.start_time

\* C8: apply_session on a draft is atomic: when it fails or is interrupted
\* part-way, no chunk, no work and no session row differs from before;
\* otherwise the session becomes applied and every assignment whose chunk
\* is still created lands.
ApplyAtomic ==
    [][\A sid \in DOMAIN sessions :
          (/\ last'.op = "apply_session"
           /\ last'.sid = sid
           /\ sessions[sid].status = "draft")
          => IF last'.result = "ok"
             THEN /\ sessions'[sid].status = "applied"
                  /\ \A i \in 1..Len(sessions[sid].assignments) :
                        (/\ sessions[sid].assignments[i].chunk_id \in DOMAIN chunks
                         /\ chunks[sessions[sid].assignments[i].chunk_id].status = "created")
                        => LandsNext(sessions[sid].assignments[i])
             ELSE /\ chunks' = chunks
                  /\ works' = works
                  /\ sessions' = sessions]_vars

\* An apply of a draft with at least two assignments to created chunks was
\* interrupted, and the session is still a draft.
ApplyAtomicWitness ==
    /\ last.op = "apply_session" /\ last.result = "raised"
    /\ last.sid \in DOMAIN sessions
    /\ sessions[last.sid].status = "draft"
    /\ Len(sessions[last.sid].assignments) >= 2
    /\ \A i \in 1..Len(sessions[last.sid].assignments) :
          /\ sessions[last.sid].assignments[i].chunk_id \in DOMAIN chunks
          /\ chunks[sessions[last.sid].assignments[i].chunk_id].status = "created"

\* C9: apply_session on a session that does not exist or is not a draft
\* returns a failure and leaves every chunk, every work and every session
\* row unchanged.
ApplyNonDraftFails ==
    [][\A sid \in 1..(MaxSessions + 1) :
          (/\ last'.op = "apply_session"
           /\ last'.sid = sid
           /\ (sid \notin DOMAIN sessions \/ sessions[sid].status # "draft"))
          => /\ last'.result = "failed"
             /\ chunks' = chunks
             /\ works' = works
             /\ sessions' = sessions]_vars

\* apply_session was refused on an applied session one of whose chunks is
\* created again, so that a second write would have changed the chunk.
ApplyNonDraftWitness ==
    /\ last.op = "apply_session" /\ last.result = "failed"
    /\ last.sid \in DOMAIN sessions
    /\ sessions[last.sid].status = "applied"
    /\ \E i \in 1..Len(sessions[last.sid].assignments) :
          /\ sessions[last.sid].assignments[i].chunk_id \in DOMAIN chunks
          /\ chunks[sessions[last.sid].assignments[i].chunk_id].status = "created"

\* C10: apply_session on a draft succeeds, makes the session applied and
\* changes only listed chunks whose status was created; a listed chunk that
\* is missing or in any other status keeps its row.
ApplyWritesOnlyCreated ==
    [][\A sid \in DOMAIN sessions :
          (/\ last'.op = "apply_session"
           /\ last'.sid = sid
           /\ sessions[sid].status = "draft")
          => /\ last'.result = "ok"
             /\ sessions'[sid].status = "applied"
             /\ DOMAIN chunks' = DOMAIN chunks
             /\ \A c \in DOMAIN chunks :
                   chunks'[c] # chunks[c]
                   => /\ chunks[c].status = "created"
                      /\ \E i \in 1..Len(sessions[sid].assignments) :
                            /\ sessions[sid].assignments[i].chunk_id = c
                            /\ LandsNext(sessions[sid].assignments[i])]_vars

\* A session was applied that lists a chunk which is missing, assigned,
\* in progress or completed, and a chunk on which its assignment landed.
ApplySkipsWitness ==
    /\ last.op = "apply_session" /\ last.result = "ok"
    /\ \E i, j \in 1..Len(sessions[last.sid].assignments) :
          /\ \/ sessions[last.sid].assignments[i].chunk_id \notin DOMAIN chunks
             \/ chunks[sessions[last.sid].assignments[i].chunk_id].status
                  \in { "assigned", "in_progress", "completed" }
          /\ Landed(sessions[last.sid].assignments[j])
          /\ chunks[sessions[last.sid].assignments[j].chunk_id].status = "planned"

\* C11: a draft session whose expires_at has passed can no longer be
\* applied: apply_session on it does not succeed.
ExpiredDraftNotApplied ==
    [][\A sid \in DOMAIN sessions :
          (/\ sessions[sid].status = "draft"
           /\ sessions[sid].expires_at < now
           /\ last'.op = "apply_session"
           /\ last'.sid = sid)
          => last'.result # "ok"]_vars

\* The step just taken is a successful unassign_chunk of chunk cid.
UnassignedNow(cid) ==
    /\ last'.op = "unassign_chunk"
    /\ last'.result = "ok"
    /\ chunks' = unassign_chunk(chunks, works, cid).chunks
    /\ works' = unassign_chunk(chunks, works, cid).works

\* C12: unassign_chunk succeeds on every existing chunk; called again after
\* a first call it succeeds and leaves chunks and works as the first call
\* left them; on a chunk that is neither planned nor assigned it changes
\* nothing.
UnassignIdempotent ==
    [][\A cid \in DOMAIN chunks :
          /\ unassign_chunk(chunks, works, cid).success
          /\ UnassignedNow(cid)
             => /\ unassign_chunk(chunks', works', cid).success
                /\ unassign_chunk(chunks', works', cid).chunks = chunks'
                /\ unassign_chunk(chunks', works', cid).works = works'
                /\ chunks[cid].status \notin { "planned", "assigned" }
                   => (chunks' = chunks /\ works' = works)]_vars

\* unassign_chunk has just cleared a chunk: the chunk is created again
\* while its work still shows the status the assignment gave it.
UnassignIdempotentWitness ==
    /\ last.op = "unassign_chunk" /\ last.result = "ok"
    /\ \E c \in DOMAIN chunks :
          /\ chunks[c].status = "created"
          /\ chunks[c].assigned_engineer_id = Null
          /\ works[chunks[c].work_id].status \in { "assigned", "scheduling" }

\* The versions of all works and chunks, summed.
RECURSIVE VersionSum(_, _)
VersionSum(rows, ids) ==
    IF ids = {} THEN 0
    ELSE LET Rest(x) == rows[x].version + VersionSum(rows, ids \ {x})
         IN Rest(CHOOSE x \in ids : TRUE)

\* C13: a PATCH of a work or chunk carrying a version different from the
\* stored one is answered 409 and leaves every work and chunk, versions
\* included, unchanged; an accepted PATCH raises the version of one entity
\* by exactly 1 and no other version.
StaleVersionConflict ==
    [][/\ \A cid \in DOMAIN chunks, data \in ChunkUpdates :
             ("version" \in DOMAIN data /\ data.version # chunks[cid].version)
             => update_chunk(chunks, cid, data).status_code = 409
       /\ \A wid \in DOMAIN works, data \in WorkUpdates :
             ("version" \in DOMAIN data /\ data.version # works[wid].version)
             => update_work(works, wid, data).status_code = 409
       /\ (last'.op \in { "update_chunk", "update_work" } /\ last'.result # "ok")
          => (chunks' = chunks /\ works' = works)
       /\ (last'.op \in { "update_chunk", "update_work" } /\ last'.result = "ok")
          => /\ DOMAIN chunks' = DOMAIN chunks
             /\ \A c \in DOMAIN chunks : chunks'[c].version >= chunks[c].version
             /\ \A w \in DOMAIN works : works'[w].version >= works[w].version
             /\ VersionSum(chunks', DOMAIN chunks) + VersionSum(works', DOMAIN works)
                  = VersionSum(chunks, DOMAIN chunks)
                    + VersionSum(works, DOMAIN works) + 1]_vars

\* A versioned PATCH of a work was refused: every work exists, so the
\* refusal is the 409 of a work whose version had moved on.
StaleVersionWitness ==
    /\ last.op = "update_work"
    /\ last.result = "failed"
    /\ \E w \in DOMAIN works : works[w].version > 1

\* C14: every step that changes a chunk row strictly increases the
\* chunk's version.
MutationBumpsVersion ==
    [][\A c \in DOMAIN chunks :
          (c \in DOMAIN chunks' /\ chunks'[c] # chunks[c])
          => chunks'[c].version > chunks[c].version]_vars

\* C15: of two PATCH requests on the same chunk that carry the same
\* version value and whose transactions were open side by side, at most one
\* is answered 200.
OneOfTwoVersionedPatchesWins ==
    \A t, u \in TxIds :
        (/\ t # u
         /\ txs[t].pc = "done" /\ txs[u].pc = "done"
         /\ txs[t].cid = txs[u].cid
         /\ "version" \in DOMAIN txs[t].data
         /\ "version" \in DOMAIN txs[u].data
         /\ txs[t].data.version = txs[u].data.version)
        => ~(txs[t].status_code = 200 /\ txs[u].status_code = 200)

\* The automaton over the statuses of a work's chunks; old is the status
\* the work had before the operation.
WorkStatusAutomaton(statuses, old) ==
    IF "in_progress" \in statuses THEN "in_progress"
    ELSE IF \A st \in statuses : st = "completed" THEN "completed"
    ELSE IF statuses \cap { "planned", "assigned" } # {}
    THEN IF "created" \in statuses THEN "scheduling" ELSE "assigned"
    ELSE old

\* The works one of whose chunk rows the step changes.
AffectedWorks ==
    { chunks[c].work_id : c \in { x \in DOMAIN chunks \cap DOMAIN chunks' :
                                     chunks'[x] # chunks[x] } }

PlanningOps == { "assign_chunk", "unassign_chunk", "assign_all_chunks",
                 "apply_session", "cancel_session" }

\* C16: after assign_chunk, unassign_chunk, assign_all_chunks,
\* apply_session and cancel_session the status of every affected work is
\* the value of the automaton over the statuses of its chunks.
WorkStatusFollowsChunks ==
    [][(last'.op \in PlanningOps /\ last'.result = "ok")
       => \A w \in AffectedWorks :
              works'[w].status =
                  WorkStatusAutomaton({ chunks'[c].status :
                                          c \in { x \in DOMAIN chunks' :
                                                     chunks'[x].work_id = w } },
                                      works[w].status)]_vars

\* C17: a suggestion suggest_slot returns for a chunk has its date in the
\* [min_date, max_date] window the Constraint Service computes for the
\* chunk in the same store, and its engineer's region is one of
\* allowed_region_ids.
SuggestionWithinConstraints ==
    (last.op = "suggest_slot" /\ last.result = "ok")
    => LET Within(c, S) ==
               /\ c.min_date # NoInt => c.min_date <= S.date
               /\ c.max_date # NoInt => S.date <= c.max_date
               /\ EngineerRegion[S.engineer_id] \in c.allowed_region_ids
       IN Within(calculate_chunk_constraints(chunks, works, links, last.cid),
                 last.suggestion)

\* The work of chunk c has exactly two chunks, c and d, both created.
TwoCreatedChunks(c, d) ==
    /\ c \in DOMAIN chunks /\ d \in DOMAIN chunks /\ c # d
    /\ chunks[c].work_id = chunks[d].work_id
    /\ { x \in DOMAIN chunks : chunks[x].work_id = chunks[c].work_id } = { c, d }
    /\ chunks[c].status = "created" /\ chunks[d].status = "created"

\* C18: when assign_all_chunks with the balanced strategy assigns both
\* chunks of a work whose two chunks were created and one of which depends
\* on the other, the chunk depended on is dated at least one day before the
\* dependent chunk.
BalancedRespectsDependency ==
    [][\A l \in links :
          (/\ l.link_type = "dependency"
           /\ TwoCreatedChunks(l.chunk_id, l.linked_chunk_id)
           /\ last'.op = "assign_all_chunks"
           /\ "strategy" \in DOMAIN last' /\ last'.strategy = "balanced"
           /\ last'.work_id = chunks[l.chunk_id].work_id
           /\ chunks'[l.chunk_id].status = "planned"
           /\ chunks'[l.linked_chunk_id].status = "planned")
          => chunks'[l.linked_chunk_id].assigned_date
                 <= chunks'[l.chunk_id].assigned_date - 1]_vars

\* s is an initial segment of t.
IsPrefix(s, t) == Len(s) <= Len(t) /\ s = SubSeq(t, 1, Len(s))

\* Some broadcast is inside its for loop.
BroadcastInProgress == \E b \in BroadcasterIds : broadcasts[b].pc = "putting"

\* C19: the events put into a subscriber's queue are, in the order of the
\* broadcasts, the events of the broadcasts performed while it was
\* registered, each once (all of them as soon as no broadcast is inside its
\* loop), and the subscriber dequeues them in that order.
BroadcastExactlyOnceFIFO ==
    \A k \in ClientIds :
        /\ IsPrefix(journal.puts[k], journal.expected[k])
        /\ ~BroadcastInProgress => journal.puts[k] = journal.expected[k]
        /\ IF k \in Registered(subscribers)
           THEN streams[k].delivered \o QueueOf(subscribers, k) = journal.puts[k]
           ELSE IsPrefix(streams[k].delivered, journal.puts[k])

\* One subscriber was handed both events in the order of the broadcasts and
\* another, registered between the two broadcasts, only the second.
BroadcastExactlyOnceFIFOWitness ==
    /\ \E k \in ClientIds : streams[k].delivered = << 1, 2 >>
    /\ \E k \in ClientIds : /\ journal.expected[k] = << 2 >>
                             /\ streams[k].delivered = << 2 >>

\* The first message of stream k is connected, and at the top of the loop
\* exactly one message was emitted since the connection was last tested.
StreamShape(k) ==
    /\ streams[k].first \in { Null, "connected" }
    /\ streams[k].pc \in { "loop", "waiting", "finally", "closed" }
           => streams[k].first = "connected"
    /\ streams[k].pc = "loop" => Len(streams[k].out) = 1
    /\ streams[k].pc = "waiting" => streams[k].out = << >>
    /\ streams[k].pc = "closed" => k \notin Registered(subscribers)

\* A turn of the loop of stream k emits sync with the head of the queue, or
\* ping on the empty queue.
IterationEmits(k) ==
    (streams[k].pc = "waiting" /\ streams'[k].pc = "loop")
    => /\ k \in Registered(subscribers)
       /\ \/ /\ QueueOf(subscribers, k) # << >>
             /\ streams'[k].out = << Sync(Head(QueueOf(subscribers, k))) >>
             /\ QueueOf(subscribers', k) = Tail(QueueOf(subscribers, k))
          \/ /\ QueueOf(subscribers, k) = << >>
             /\ streams'[k].out = << Ping >>
             /\ subscribers' = subscribers

\* Nothing is put into the queue of a stream that was removed.
NoPutAfterRemoval(k) ==
    streams[k].pc = "closed"
    => /\ journal'.puts[k] = journal.puts[k]
       /\ k \notin Registered(subscribers')

\* C20: the first message of every stream is connected; after it every turn
\* of the loop emits exactly one message, sync with the next queued event or
\* ping when the wait timed out on the empty queue; a stream whose client
\* went away is eventually removed from the registry, and from then on no
\* broadcast puts an event into its queue.
StreamProtocol ==
    /\ [](\A k \in ClientIds : StreamShape(k))
    /\ [][\A k \in ClientIds : IterationEmits(k) /\ NoPutAfterRemoval(k)]_vars
    /\ \A k \in ClientIds :
          streams[k].disconnected
              ~> (streams[k].pc = "closed" /\ k \notin Registered(subscribers))

\* A stream that delivered an event was removed after its client went away,
\* and a later broadcast is inside its loop.
StreamProtocolWitness ==
    \E k \in ClientIds, b \in BroadcasterIds :
        /\ streams[k].pc = "closed"
        /\ streams[k].disconnected
        /\ streams[k].delivered # << >>
        /\ broadcasts[b].pc = "putting"
        /\ \A i \in 1..Len(journal.expected[k]) :
              journal.expected[k][i] # broadcasts[b].event

\* C21: no call of broadcast ends with an exception for the calling
\* request, and a failed queue.put does not keep the event from the other
\* subscribers: inside the loop every subscriber already passed whose put
\* did not fail holds the event.
BroadcastFailureContained ==
    \A b \in BroadcasterIds :
        /\ broadcasts[b].pc # "raised"
        /\ broadcasts[b].pc = "putting"
           => \A k \in ClientIds :
                  (/\ \E i \in 1..Len(journal.expected[k]) :
                         journal.expected[k][i] = broadcasts[b].event
                   /\ \A i \in 1..Len(broadcasts[b].todo) : broadcasts[b].todo[i] # k
                   /\ k \notin broadcasts[b].failed)
                  => \E i \in 1..Len(journal.puts[k]) :
                         journal.puts[k][i] = broadcasts[b].event

\* How often event type e occurs among the events of a request.
Count(events, e) == Cardinality({ i \in 1..Len(events) : events[i] = e })

\* The chunks the step moves from status a to status b.
Moved(a, b) ==
    { c \in DOMAIN chunks \cap DOMAIN chunks' :
        chunks[c].status = a /\ chunks'[c].status = b }

\* C22: a successful apply of a session broadcasts one
\* planning_session_applied event and one chunk_planned event per chunk it
\* plans; a successful cancel broadcasts one planning_session_cancelled
\* event and one chunk_updated event per chunk it reverts.
SessionEventsPerChunk ==
    [][("events" \in DOMAIN last' /\ last'.result = "ok")
       => /\ last'.op = "apply_session"
             => /\ Count(last'.events, "planning_session_applied") = 1
                /\ Count(last'.events, "chunk_planned")
                       = Cardinality(Moved("created", "planned"))
          /\ last'.op = "cancel_session"
             => /\ Count(last'.events, "planning_session_cancelled") = 1
                /\ Count(last'.events, "chunk_updated")
                       = Cardinality(Moved("planned", "created"))]_vars

\* C23: on the same store and with the same strategy create_session gives
\* the same assignments and the same failures whatever the order in which
\* the store returns the chunk rows.
CreateSessionDeterministic ==
    \A strategy \in Strategies, erows \in EngineerRowOrders :
        \A crows1, crows2 \in ChunkRowOrders :
            LET Same(a, b) == a.assignments = b.assignments /\ a.failed = b.failed
            IN Same(create_session(chunks, works, links, erows, crows1, strategy),
                    create_session(chunks, works, links, erows, crows2, strategy))

\* h is the ceiling of minutes / 60.
IsCeilHours(h, minutes) == 60 * h >= minutes /\ 60 * (h - 1) < minutes

\* C24: the travel time is 0 for identical endpoints or a null endpoint;
\* otherwise it is the ceiling in hours of the (from, to) entry when there
\* is one, else of the (to, from) entry when there is one, else of 60
\* minutes.
TravelHoursRule ==
    last.op = "get_travel_time"
    => LET Rule(cache, f, t, h) ==
               IF f = Null \/ t = Null \/ f = t THEN h = 0
               ELSE IF << f, t >> \in DOMAIN cache THEN IsCeilHours(h, cache[<< f, t >>])
               ELSE IF << t, f >> \in DOMAIN cache THEN IsCeilHours(h, cache[<< t, f >>])
               ELSE h = 1
       IN Rule(last.cache, last.from_dc, last.to_dc, last.hours)

\* A call whose (from, to) entry is 61 minutes while the (to, from) entry
\* is 60: the answer is 2 hours.
TravelHoursWitness ==
    /\ last.op = "get_travel_time"
    /\ << last.from_dc, last.to_dc >> \in DOMAIN last.cache
    /\ << last.to_dc, last.from_dc >> \in DOMAIN last.cache
    /\ last.cache[<< last.from_dc, last.to_dc >>] = 61
    /\ last.cache[<< last.to_dc, last.from_dc >>] = 60
    /\ last.hours = 2

\* C25: the occupied intervals and the load a create_session call computes
\* come from the persisted chunks and the virtual assignments of that call
\* alone, so the proposals of a call interleaved with another are those the
\* call makes when it runs by itself on the same store.
RunAlone(r) ==
    CreateSessionLoop(chunks, works, links, runs[r].erows, runs[r].crows,
                      runs[r].strategy, runs[r].queue, 1, << >>, << >>)

OverlayIsOwn(r) ==
    \A e \in Engineers, d \in Today..(Today + NumDays) :
        /\ get_occupied_intervals(chunks, works, virtual_assignments(runs, r), e, d)
             = get_occupied_intervals(chunks, works, runs[r].assignments, e, d)
        /\ calculate_load(chunks, virtual_assignments(runs, r), e, Today, d)
             = calculate_load(chunks, runs[r].assignments, e, Today, d)

OverlayIsolated ==
    \A r \in RunIds :
        runs[r].pc # "idle" =>
            /\ OverlayIsOwn(r)
            /\ IsPrefix(runs[r].assignments, RunAlone(r).assignments)
            /\ IsPrefix(runs[r].failed, RunAlone(r).failed)
            /\ runs[r].pc = "done" =>
                   /\ runs[r].assignments = RunAlone(r).assignments
                   /\ runs[r].failed = RunAlone(r).failed

\* Both calls are inside their loops and each holds a virtual assignment.
OverlayIsolatedWitness ==
    /\ \A r \in RunIds : runs[r].pc = "loop" /\ runs[r]._virtual_assignments # << >>
    /\ \E r \in RunIds : runs[r].i <= Len(runs[r].queue)

\* C26: assign_all_chunks tries every created chunk of the work and goes on
\* after a chunk without a slot: assigned_count plus the number of errors is
\* the number of chunks of the work that were created, success holds
\* exactly when there is no error, the chunks counted as assigned are
\* planned with engineer, date and start time, and every other chunk is as
\* it was.
CreatedOf(work_id) ==
    { c \in DOMAIN chunks : chunks[c].work_id = work_id /\ chunks[c].status = "created" }

FullTriple(row) ==
    /\ row.assigned_engineer_id # Null
    /\ row.assigned_date # NoInt
    /\ row.assigned_start_time # NoInt

AssignAllAccounting ==
    [][last'.op = "assign_all_chunks" =>
        LET created == CreatedOf(last'.work_id)
            assigned == { c \in created : chunks'[c] # chunks[c] }
        IN /\ last'.assigned_count + last'.errors = Cardinality(created)
           /\ last'.ok = (last'.errors = 0)
           /\ Cardinality(assigned) = last'.assigned_count
           /\ \A c \in assigned : chunks'[c].status = "planned" /\ FullTriple(chunks'[c])
           /\ \A c \in DOMAIN chunks \ created : chunks'[c] = chunks[c]
           /\ DOMAIN chunks' = DOMAIN chunks]_vars

\* A call that found a slot for one chunk and none for another, which is
\* still created.
AssignAllAccountingWitness ==
    /\ last.op = "assign_all_chunks"
    /\ last.assigned_count > 0
    /\ last.errors > 0
    /\ \E c \in DOMAIN chunks : chunks[c].work_id = last.work_id
                                  /\ chunks[c].status = "created"

\* C27: create_session changes no chunk and no work; it appends one session
\* in status draft in which every chunk that was created appears exactly
\* once, among the assignments or among the failed, and whose total is
\* assigned plus failed.
SessionChunkIds(session) ==
    Map(LAMBDA a : a.chunk_id, session.assignments) \o session.failed

IsPreview(created, session) ==
    /\ session.status = "draft"
    /\ Len(SessionChunkIds(session)) = Cardinality(created)
    /\ { SessionChunkIds(session)[i] : i \in DOMAIN SessionChunkIds(session) } = created
    /\ session.stats.assigned = Len(session.assignments)
    /\ session.stats.failed = Len(session.failed)
    /\ session.stats.total = session.stats.assigned + session.stats.failed
    /\ session.stats.total = Cardinality(created)

CreateSessionIsPreview ==
    [][last'.op = "create_session" =>
        /\ chunks' = chunks
        /\ works' = works
        /\ Len(sessions') = Len(sessions) + 1
        /\ SubSeq(sessions', 1, Len(sessions)) = sessions
        /\ IsPreview({ c \in DOMAIN chunks : chunks[c].status = "created" },
                     sessions'[Len(sessions')])]_vars

\* A session made while one chunk is planned: it proposes a slot for one
\* created chunk or lists it as failed, and leaves the planned one out.
CreateSessionIsPreviewWitness ==
    /\ last.op = "create_session"
    /\ sessions # << >>
    /\ SessionChunkIds(sessions[Len(sessions)]) # << >>
    /\ \E c \in DOMAIN chunks : chunks[c].status = "planned"
    /\ \E c \in DOMAIN chunks : chunks[c].status = "created"

\* C28: with four created chunks of two hours and two eligible engineers
\* who each have one 09-17 window on one day, a dense session proposes all
\* four chunks for one engineer and a balanced session two for each.
ProposedFor(session, e) ==
    Len(SelectSeq(session.assignments, LAMBDA a : a.engineer_id = e))

PackedAsStated(session) ==
    /\ session.strategy = "dense" =>
           \E e \in { "e4", "e5" } : ProposedFor(session, e) = 4
    /\ session.strategy = "balanced" =>
           \A e \in { "e4", "e5" } : ProposedFor(session, e) = 2

DenseFillsBalancedSpreads ==
    \A i \in DOMAIN sessions : PackedAsStated(sessions[i])

\* The same for the sessions PlanningService.create_session makes.
DenseFillsBalancedSpreadsInPlanningService ==
    last.op = "create_session" => PackedAsStated(sessions[last.sid])

\* C29: a session of strategy sla searches the chunks in the order of
\* (priority rank, deadline with none last, chunk.order), support or not:
\* of two proposals of the session, the one whose key is smaller comes
\* first, so no chunk is given its slot before a chunk of a more critical
\* work.
ProposalKey(a) == SLAKey(chunks[a.chunk_id], works[a.work_id], a.chunk_id)

InSLAOrder(session) ==
    session.strategy = "sla" =>
        \A j, k \in DOMAIN session.assignments :
            j < k => ~LexLess(ProposalKey(session.assignments[k]),
                              ProposalKey(session.assignments[j]))

SLAQueueByPriority ==
    \A i \in DOMAIN sessions : InSLAOrder(sessions[i])

\* The same for the sessions PlanningService.create_session makes.
SLAQueueByPriorityInPlanningService ==
    last.op = "create_session" => InSLAOrder(sessions[last.sid])

\* C30: a chunk whose duration is zero gets no slot: no suggestion is
\* answered for it, it is never planned, and no session proposes it.
ZeroDurationRefused ==
    \A c \in DOMAIN chunks :
        duration_hours(c) = 0 =>
            /\ chunks[c].status = "created"
            /\ chunks[c].assigned_engineer_id = Null
            /\ \A i \in DOMAIN sessions :
                   \A k \in DOMAIN sessions[i].assignments :
                       sessions[i].assignments[k].chunk_id # c
            /\ (last.op = "suggest_slot" /\ last.cid = c) => last.suggestion = NoSlot

\* The triple of data, written to chunk cid, and the persisted assignment
\* of another chunk d of the same engineer and date are closer than their
\* durations and the travel between their data centers allow.
TripleTooClose(cid, data, d) ==
    /\ d # cid
    /\ Occupies(d)
    /\ chunks[d].assigned_engineer_id = data.assigned_engineer_id
    /\ chunks[d].assigned_date = data.assigned_date
    /\ ~ \/ data.assigned_start_time + duration_hours(cid)
              + get_travel_time(effective_dc(chunks, works, cid),
                                effective_dc(chunks, works, d))
            <= chunks[d].assigned_start_time
         \/ chunks[d].assigned_start_time + duration_hours(d)
              + get_travel_time(effective_dc(chunks, works, d),
                                effective_dc(chunks, works, cid))
            <= data.assigned_start_time

\* C31: a PATCH of a chunk that writes an assignment triple overlapping,
\* travel included, another persisted assignment of the same engineer on
\* the same date is answered with 409 Conflict and leaves the chunks as
\* they were.
PatchOverlapRejected ==
    [][(/\ last'.op = "update_chunk"
        /\ last'.cid \in DOMAIN chunks
        /\ \E d \in DOMAIN chunks : TripleTooClose(last'.cid, last'.data, d))
       => (last'.status_code = 409 /\ chunks' = chunks)]_vars

\* The suggestion lies in one TimeSlot row of its engineer and date.
InOneWindow(engineer_id, slot) ==
    \E k \in DOMAIN TimeSlots(engineer_id, slot.date) :
        /\ TimeSlots(engineer_id, slot.date)[k].start_hour <= slot.start_time
        /\ slot.start_time + slot.duration_hours
           <= TimeSlots(engineer_id, slot.date)[k].end_hour

\* The occupied intervals of the engineer the last call was made for.
OccupiedOn(day) ==
    get_occupied_intervals(chunks, works, << >>, last.engineer_id, day)

\* C32: every suggestion returned by find_available_slots lies inside a
\* single work window of that engineer on that date, has the chunk's
\* duration, and end_time = start_time + duration.
SuggestionInWindow ==
    last.op = "find_available_slots" =>
        \A i \in DOMAIN last.slots :
            /\ last.slots[i].engineer_id = last.engineer_id
            /\ last.slots[i].duration_hours = duration_hours(last.cid)
            /\ last.slots[i].end_time
               = last.slots[i].start_time + last.slots[i].duration_hours
            /\ InOneWindow(last.engineer_id, last.slots[i])

\* A suggestion of a day on which the engineer has an assignment, starting
\* after the beginning of its window, next to a day without a suggestion.
SuggestionInWindowWitness ==
    /\ last.op = "find_available_slots"
    /\ \E i \in DOMAIN last.slots :
          /\ OccupiedOn(last.slots[i].date) # << >>
          /\ \A k \in DOMAIN TimeSlots(last.engineer_id, last.slots[i].date) :
                TimeSlots(last.engineer_id, last.slots[i].date)[k].start_hour
                # last.slots[i].start_time
    /\ \E d \in 1..NumDays :
          /\ TimeSlots(last.engineer_id, d) # << >>
          /\ \A i \in DOMAIN last.slots : last.slots[i].date # d

\* The work of the last call asks for a fixed hour.
FixedHour ==
    /\ works[chunks[last.cid].work_id].work_type = "support"
    /\ works[chunks[last.cid].work_id].target_time # NoInt

\* Starting at hour h of the day, the chunk of the last call fits in a work
\* window, starts no earlier than the end of every occupied interval that
\* starts before h plus the travel from its data center, and ends early
\* enough to travel to the next occupied interval.
FitsAt(day, h) ==
    LET occupied == OccupiedOn(day)
        dc == effective_dc(chunks, works, last.cid)
        duration == duration_hours(last.cid)
        IsNext(j) == /\ occupied[j].start >= h
                     /\ \A i \in DOMAIN occupied :
                           occupied[i].start >= h => occupied[j].start <= occupied[i].start
    IN /\ InOneWindow(last.engineer_id,
                      [date |-> day, start_time |-> h, duration_hours |-> duration])
       /\ \A j \in DOMAIN occupied :
             /\ occupied[j].start < h
                => occupied[j].end + get_travel_time(occupied[j].dc_id, dc) <= h
             /\ IsNext(j)
                => h + duration + get_travel_time(dc, occupied[j].dc_id)
                   <= occupied[j].start

SlotsOn(day) == SelectSeq(last.slots, LAMBDA slot : slot.date = day)

\* C33: for a work without a fixed target_time, find_available_slots
\* returns at most one suggestion per date for an engineer, and its start
\* is the least hour of that day at which the chunk fits in a work window,
\* starts no earlier than the end of every earlier occupied interval plus
\* the travel from its data center, and ends early enough to travel to the
\* next occupied interval.
FirstFeasibleStart ==
    (last.op = "find_available_slots" /\ ~ FixedHour) =>
        \A day \in 1..NumDays :
            /\ Len(SlotsOn(day)) <= 1
            /\ \A i \in DOMAIN SlotsOn(day) :
                  /\ FitsAt(day, SlotsOn(day)[i].start_time)
                  /\ \A h \in 0..23 :
                        h < SlotsOn(day)[i].start_time => ~ FitsAt(day, h)

\* C34: for a support work with target_time set, every suggestion has
\* date = target_date and start = target_time, and one is returned for an
\* engineer only if [target_time, target_time + duration) lies in a work
\* window, intersects no occupied interval, starts no earlier than the
\* previous occupied interval's end plus travel, and leaves the travel time
\* to the next occupied interval.
FixedHourFeasible ==
    (last.op = "find_available_slots" /\ FixedHour) =>
        \A i \in DOMAIN last.slots :
            /\ last.slots[i].date = works[chunks[last.cid].work_id].target_date
            /\ last.slots[i].start_time = works[chunks[last.cid].work_id].target_time
            /\ \A j \in DOMAIN OccupiedOn(last.slots[i].date) :
                  \/ OccupiedOn(last.slots[i].date)[j].end <= last.slots[i].start_time
                  \/ last.slots[i].end_time <= OccupiedOn(last.slots[i].date)[j].start
            /\ FitsAt(last.slots[i].date, last.slots[i].start_time)

\* The engineers suggest_slot searches for the chunk, and the candidates
\* find_available_slots returns for them over the chunk's date window.
SearchedEngineers(cid) ==
    { e \in Engineers : \E erows \in EngineerRowOrders :
        \E k \in DOMAIN get_candidate_engineers(erows, effective_dc(chunks, works, cid), Null) :
            get_candidate_engineers(erows, effective_dc(chunks, works, cid), Null)[k] = e }

CandidatesOf(cid) ==
    UNION { { find_available_slots(chunks, works, << >>, e, cid, works[chunks[cid].work_id],
                  get_date_window(chunks, works, links, cid).start,
                  get_date_window(chunks, works, links, cid).end)[k] :
              k \in DOMAIN find_available_slots(chunks, works, << >>, e, cid,
                               works[chunks[cid].work_id],
                               get_date_window(chunks, works, links, cid).start,
                               get_date_window(chunks, works, links, cid).end) } :
            e \in SearchedEngineers(cid) }

\* (used + duration) / capacity on the candidate's engineer and day, as
\* << numerator, denominator >>.
FutureLoad(cand) ==
    << calculate_load(chunks, << >>, cand.engineer_id, cand.date, cand.date).used
       + cand.duration_hours,
       calculate_load(chunks, << >>, cand.engineer_id, cand.date, cand.date).available >>

\* The store of one engineer with an empty calendar and a 09-18 window on
\* every day, and a chunk of four hours.
SingleEngineerEmptyCalendar(cid) ==
    /\ duration_hours(cid) = 4
    /\ \E e \in Engineers :
          /\ SearchedEngineers(cid) = { e }
          /\ \A d \in Today..NumDays :
                /\ TimeSlots(e, d) = << [start_hour |-> 9, end_hour |-> 18] >>
                /\ get_occupied_intervals(chunks, works, << >>, e, d) = << >>

\* C35: the balanced selector of suggest_slot returns, from a non-empty
\* candidate list, a candidate that minimizes (used + duration) / capacity
\* on the candidate's own engineer and day, and among the candidates of the
\* minimal ratio one of the earliest date; with a single engineer whose
\* calendar is empty and who has a 09-18 window on each working day, it
\* returns the earliest day with start 9 and end 13 for a 4 h chunk.
BalancedSelectsLeastLoaded ==
    (/\ last.op = "suggest_slot"
     /\ last.result # "raised"
     /\ chunks[last.cid].work_id \in DOMAIN works
     /\ CandidatesOf(last.cid) # {}) =>
        /\ last.result = "ok"
        /\ last.suggestion \in CandidatesOf(last.cid)
        /\ \A cand \in CandidatesOf(last.cid) :
              /\ ~ RatLess(FutureLoad(cand), FutureLoad(last.suggestion))
              /\ RatEq(FutureLoad(cand), FutureLoad(last.suggestion))
                 => last.suggestion.date <= cand.date
        /\ SingleEngineerEmptyCalendar(last.cid)
           => /\ last.suggestion.date = Today
              /\ last.suggestion.start_time = 9
              /\ last.suggestion.end_time = 13

\* A suggestion chosen against a candidate of a greater ratio and against
\* a candidate of the same ratio on a later day.
BalancedSelectsLeastLoadedWitness ==
    /\ last.op = "suggest_slot"
    /\ last.result = "ok"
    /\ \E cand \in CandidatesOf(last.cid) :
          RatLess(FutureLoad(last.suggestion), FutureLoad(cand))
    /\ \E cand \in CandidatesOf(last.cid) :
          /\ RatEq(FutureLoad(cand), FutureLoad(last.suggestion))
          /\ last.suggestion.date < cand.date

\* The chunks that hold hours of the engineer's day in a context of a run:
\* those persisted in an occupying status and those of the overlay.
HoldersIn(context, e, d) ==
    { c \in DOMAIN context.chunks :
        \/ /\ context.chunks[c].assigned_engineer_id = e
           /\ context.chunks[c].assigned_date = d
           /\ context.chunks[c].status \in OccupiedStatuses
        \/ \E k \in DOMAIN context.virtual_assignments :
              /\ context.virtual_assignments[k].chunk_id = c
              /\ context.virtual_assignments[k].engineer_id = e
              /\ context.virtual_assignments[k].date = d }

\* C36: during a run of assign_all_chunks the used hours returned by
\* load(engineer, day) count each chunk's duration exactly once, also for a
\* chunk assigned earlier in the same call, which is in the chunk table as
\* planned and in the virtual overlay.
LoadCountsOnce ==
    (last.op = "assign_all_chunks" /\ "contexts" \in DOMAIN last) =>
        \A i \in DOMAIN last.contexts : \A e \in Engineers : \A d \in 1..NumDays :
            calculate_load(last.contexts[i].chunks, last.contexts[i].virtual_assignments,
                           e, d, d).used
            = SumSeq(Map(LAMBDA c : duration_hours(c),
                         SelectSeq(ChunkRows, LAMBDA c :
                             c \in HoldersIn(last.contexts[i], e, d))))

\* The status and the assignment triple of a chunk row.
Assignment(row) ==
    << row.status, row.assigned_engineer_id, row.assigned_date, row.assigned_start_time >>

\* C37: assign_chunk, assign_all_chunks, unassign_chunk, apply_session and
\* cancel_session change neither the status nor the assignment triple of a
\* chunk whose status is in_progress or completed.
StartedChunksUntouched ==
    [][last'.op \in PlanningOps
       => \A c \in DOMAIN chunks :
             chunks[c].status \in { "in_progress", "completed" }
             => /\ c \in DOMAIN chunks'
                /\ Assignment(chunks'[c]) = Assignment(chunks[c])]_vars

\* The request of the given kind on session sid was answered 200.
Succeeded(op, sid) ==
    \E t \in TxIds : /\ txs[t].pc = "done"
                     /\ txs[t].status_code = 200
                     /\ txs[t].data = [op |-> op, sid |-> sid]

\* No request is under way.
Quiescent == \A t \in TxIds : txs[t].pc \in { "idle", "done" }

\* C38: when apply_session and cancel_session run concurrently on the same
\* draft session, the outcome is that of one of the two serial orders: the
\* session never ends cancelled while chunks still carry the assignments
\* written by its apply, nor applied after its cancel was reported
\* successful.
ApplyCancelSerializable ==
    \A sid \in DOMAIN sessions :
        (Quiescent /\ Succeeded("cancel_session", sid)) =>
            /\ sessions[sid].status = "cancelled"
            /\ Succeeded("apply_session", sid)
               => \A k \in DOMAIN sessions[sid].assignments :
                     sessions[sid].assignments[k].chunk_id \in DOMAIN chunks
                     => ~ Matches(sessions[sid].assignments[k],
                                  sessions[sid].assignments[k].chunk_id)

\* The event was put on a queue that still holds it, or was sent on a
\* stream.
Enqueued(event) ==
    \/ \E i \in DOMAIN subscribers : \E j \in DOMAIN subscribers[i].queue :
          subscribers[i].queue[j] = event
    \/ \E k \in ClientIds : \E j \in DOMAIN streams[k].delivered :
          streams[k].delivered[j] = event

\* C39: every change event delivered to subscribers describes a change
\* that is committed: no event is enqueued for a mutation whose transaction
\* is afterwards rolled back or fails to commit.
EventsDescribeCommitted ==
    \A t \in TxIds :
        (txs[t].pc = "done" /\ txs[t].status_code = 500) => ~ Enqueued(txs[t].data)

NullTriple(row) ==
    /\ row.assigned_engineer_id = Null
    /\ row.assigned_date = NoInt
    /\ row.assigned_start_time = NoInt

\* C40: in every state reachable through assign_chunk, assign_all_chunks,
\* unassign_chunk, apply_session, cancel_session, confirm-planned and
\* cancel-all-chunks, a chunk's status is created exactly when its
\* assignment triple is all null, and a chunk in status planned or assigned
\* has a full triple.
StatusFollowsTriple ==
    \A c \in DOMAIN chunks :
        /\ chunks[c].status = "created" <=> NullTriple(chunks[c])
        /\ chunks[c].status \in { "planned", "assigned" } => FullTriple(chunks[c])

\* A confirmed chunk next to a chunk that cancel-all-chunks has just
\* returned to created.
StatusFollowsTripleWitness ==
    /\ last.op = "cancel_all_chunks"
    /\ \E c \in DOMAIN chunks : chunks[c].status = "assigned" /\ FullTriple(chunks[c])
    /\ \E c \in DOMAIN chunks : chunks[c].status = "created" /\ NullTriple(chunks[c])
    /\ \E sid \in DOMAIN sessions : sessions[sid].status = "applied"
====
